---- MODULE Spec2Model ----
(***************************************************************************)
(* A model of neo4japanese: the JMdict parser (parsers/jmdict.py), the     *)
(* pydantic models (models.py), the Cypher transaction functions           *)
(* (transactions.py), the application object (app.py), the main script     *)
(* (__main__.py) and the cross-reference parser of jmdict_parser.py.       *)
(*                                                                         *)
(* The graph store is a record of node and relationship sets.  Every node  *)
(* and relationship carries the identifier the store gave it on creation,  *)
(* so that a MERGE that creates a second copy is visible.                  *)
(***************************************************************************)
EXTENDS Integers, Sequences, FiniteSets, TLC

VARIABLES
    all_entries,        \* run(): the <entry> elements of the XML tree
    records,            \* a client's list of models.Entry objects
    batch_size,         \* args.batch_size
    key_order,          \* iteration order of keys(map) in the sense queries
    pc,                 \* position of the run
    batch,              \* enumerate() index of the current group
    entries,            \* run(): the parsed entries of the current group
    store,              \* the Neo4j graph
    committed,          \* the write transactions committed so far
    run_no,             \* how many times the program has been started
    store_after_first,  \* the graph when the first run ended
    xref_calls,         \* calls of add_xref_relationships_for_entries
    exit_code,          \* what main() returned (-1 while running)
    xref,               \* parse_xref(): the argument
    result,             \* parse_xref(): the returned dictionary
    error,              \* the exception that ended the run (NULL: none)
    driver              \* neo_app.driver: "none" (no object), "open", "closed"

vars == <<all_entries, records, batch_size, key_order, pc, batch, entries,
          store, committed, run_no, store_after_first, xref_calls, exit_code,
          xref, result, error, driver>>

(***************************************************************************)
(* Bounds of the model.                                                    *)
(***************************************************************************)
MaxCorpus == 2      \* entries in the corpus
MaxBatchSize == 2   \* largest --batch-size tried
MaxRuns == 2        \* times the program is run over the same corpus
MaxTokens == 3      \* tokens in a cross-reference string

(***************************************************************************)
(* Generic helpers.                                                        *)
(***************************************************************************)
RECURSIVE FoldLeft(_, _, _)
FoldLeft(Op(_, _), acc, seq) ==
    IF seq = <<>> THEN acc ELSE FoldLeft(Op, Op(acc, Head(seq)), Tail(seq))

\* Nodes are visited in identifier order.
RECURSIVE FoldNodes(_, _, _)
FoldNodes(Op(_, _), acc, nodes) ==
    IF nodes = {} THEN acc
    ELSE LET n == CHOOSE m \in nodes : \A o \in nodes : m.id <= o.id
         IN  FoldNodes(Op, Op(acc, n), nodes \ {n})

Range(seq) == {seq[i] : i \in 1..Len(seq)}

Map(Op(_), seq) == [i \in 1..Len(seq) |-> Op(seq[i])]

SeqsUpTo(S, n) == UNION {[1..k -> S] : k \in 0..n}

\* Python's None where a string, and where an int, is expected.
NULL == "<None>"
NoRank == -1

\* A successful call, and a call that raised.
Ok(v) == [ok |-> TRUE, value |-> v]
Raise(e) == [ok |-> FALSE, err |-> e]

AllOk(rs) == \A i \in 1..Len(rs) : rs[i].ok
Values(rs) == [i \in 1..Len(rs) |-> rs[i].value]
FirstErr(rs) == rs[CHOOSE i \in 1..Len(rs) :
                        ~rs[i].ok /\ \A j \in 1..(i - 1) : rs[j].ok].err

(***************************************************************************)
(* models.py: the pydantic models.  A model's constructor validates its    *)
(* keyword arguments and raises ValidationError, which names the model,    *)
(* when a required field is missing or a value is not of the field's type. *)
(***************************************************************************)
\* Optional[...] fields that hold None (gloss), and zip_longest's fill value.
None == [none |-> TRUE]

\* SourceType: the recognized example source types.
SourceType == {"tat"}

\* XrefTag: the recognized cross-reference tags.
XrefTag == {"xref", "ant"}

\* class Kanji: keb is a required str.
KanjiModel(kw) ==
    IF kw.keb = NULL THEN Raise("ValidationError for Kanji") ELSE Ok(kw)

\* A fault: reb is Optional[str], a reading with no text is accepted.
ReadingModel_Optional(kw) == Ok(kw)

\* class Reading: reb is a required str.
ReadingModel(kw) ==
    IF kw.reb = NULL THEN Raise("ValidationError for Reading") ELSE Ok(kw)

\* A fault: exsrc_type is a plain str, any source type is accepted.
SentenceModel_AnyType(kw) ==
    IF kw.exsrc_type = NULL \/ kw.eng = NULL \/ kw.jpn = NULL
    THEN Raise("ValidationError for Sentence") ELSE Ok(kw)

\* class Sentence: exsrc_type must be a SourceType value; eng and jpn are str.
SentenceModel(kw) ==
    IF kw.exsrc_type \notin SourceType \/ kw.eng = NULL \/ kw.jpn = NULL
    THEN Raise("ValidationError for Sentence") ELSE Ok(kw)

\* class Example: ex_text is a required str.
ExampleModel(kw) ==
    IF kw.ex_text = NULL THEN Raise("ValidationError for Example") ELSE Ok(kw)

\* class Sense: every field but gloss is required.
SenseRequired ==
    {"stagk", "stagr", "pos", "xref", "ant", "field", "misc", "s_inf",
     "lsource", "dial", "example"}

SenseModel(kw) ==
    IF SenseRequired \subseteq DOMAIN kw THEN Ok(kw)
    ELSE Raise("ValidationError for Sense")

(***************************************************************************)
(* parsers/jmdict.py.  An element of the XML tree is a record of its       *)
(* children and attributes; a missing child text or attribute is NULL.     *)
(***************************************************************************)
\* entry.find('ent_seq') found nothing.
NoEntSeq == 0

\* An element that is there but has no text: elem.text is None.
NoText == "<no text>"

\* elem.text
text(elem) == IF elem = NoText THEN NULL ELSE elem

\* A fault: a <k_ele> with no <keb> is skipped, not an error.
get_kanji_Skip(entry) ==
    LET one(k_ele) == KanjiModel([keb |-> text(k_ele.keb),
                                  ke_inf |-> k_ele.ke_inf,
                                  ke_pri |-> k_ele.ke_pri])
        kept == SelectSeq(entry.k_ele, LAMBDA k_ele : k_ele.keb # NULL)
        rs == Map(one, kept)
    IN  IF AllOk(rs) THEN Ok(Values(rs)) ELSE Raise(FirstErr(rs))

\* k_ele.find('keb').text raises AttributeError when there is no <keb>.
get_kanji(entry) ==
    LET one(k_ele) ==
            IF k_ele.keb = NULL THEN Raise("AttributeError")
            ELSE KanjiModel([keb |-> text(k_ele.keb),
                             ke_inf |-> k_ele.ke_inf,
                             ke_pri |-> k_ele.ke_pri])
        rs == Map(one, entry.k_ele)
    IN  IF AllOk(rs) THEN Ok(Values(rs)) ELSE Raise(FirstErr(rs))

get_readings(entry) ==
    LET one(r_ele) ==
            IF r_ele.reb = NULL THEN Raise("AttributeError")
            ELSE ReadingModel([reb |-> text(r_ele.reb),
                               re_nokanji |-> r_ele.re_nokanji,
                               re_restr |-> r_ele.re_restr,
                               re_inf |-> r_ele.re_inf,
                               re_pri |-> r_ele.re_pri])
        rs == Map(one, entry.r_ele)
    IN  IF AllOk(rs) THEN Ok(Values(rs)) ELSE Raise(FirstErr(rs))

\* attrib.get(name, default)
AttribGet(value, default) == IF value = NULL THEN default ELSE value

get_lsources(sense) ==
    LET one(lsource) ==
            [lang |-> [name |-> AttribGet(lsource.lang, "eng")],
             phrase |-> lsource.text,
             partial |-> AttribGet(lsource.ls_type, "full") = "partial",
             wasei |-> AttribGet(lsource.ls_wasei, "n") = "y"]
    IN  Map(one, sense.lsource)

\* A fault: sense.xpath('gloss') for defn, every element counts as plain.
GlossTexts_Plain(sense, g_type) ==
    LET keep(acc, elem) ==
            IF g_type = NULL \/ elem.g_type = g_type
            THEN Append(acc, elem.text) ELSE acc
    IN  FoldLeft(keep, <<>>, sense.gloss)

\* [elem.text for elem in sense.xpath('gloss[@g_type="..."]')]
GlossTexts(sense, g_type) ==
    LET keep(acc, elem) ==
            IF elem.g_type = g_type THEN Append(acc, elem.text) ELSE acc
    IN  FoldLeft(keep, <<>>, sense.gloss)

get_gloss(sense) ==
    LET fields == [defn |-> GlossTexts(sense, NULL),
                   expl |-> GlossTexts(sense, "expl"),
                   fig |-> GlossTexts(sense, "fig"),
                   lit |-> GlossTexts(sense, "lit"),
                   tm |-> GlossTexts(sense, "tm")]
    IN  IF \E f \in DOMAIN fields : fields[f] # <<>> THEN fields ELSE None

\* The dict {lang(elem): elem.text for elem in ...}: the last element of a
\* language wins; a language with no element raises KeyError on lookup.
ExSentHas(ex_sent, l) ==
    \E i \in 1..Len(ex_sent) : AttribGet(ex_sent[i].lang, "eng") = l

ExSentGet(ex_sent, l) ==
    ex_sent[CHOOSE i \in 1..Len(ex_sent) :
                /\ AttribGet(ex_sent[i].lang, "eng") = l
                /\ \A j \in (i + 1)..Len(ex_sent) :
                       AttribGet(ex_sent[j].lang, "eng") # l].text

get_examples(sense) ==
    LET one(example) ==
            IF ~ExSentHas(example.ex_sent, "eng")
                 \/ ~ExSentHas(example.ex_sent, "jpn")
            THEN Raise("KeyError")
            ELSE LET sentence ==
                         SentenceModel(
                             [exsrc_type |-> example.exsrc_type,
                              ex_srce |-> example.ex_srce,
                              eng |-> ExSentGet(example.ex_sent, "eng"),
                              jpn |-> ExSentGet(example.ex_sent, "jpn")])
                 IN  IF ~sentence.ok THEN sentence
                     ELSE ExampleModel([sentence |-> sentence.value,
                                        ex_text |-> example.ex_text])
        rs == Map(one, sense.example)
    IN  IF AllOk(rs) THEN Ok(Values(rs)) ELSE Raise(FirstErr(rs))

\* [elem.text for elem in entry.xpath('.//keb')] and the same for reb
AllKeb(entry) == Map(LAMBDA k_ele : k_ele.keb, entry.k_ele)
AllReb(entry) == Map(LAMBDA r_ele : r_ele.reb, entry.r_ele)

\* The restriction lists of a sense: its own, or every form of its entry.
get_stagk(entry, sense) ==
    IF sense.stagk # <<>> THEN sense.stagk ELSE AllKeb(entry)

get_stagr(entry, sense) ==
    IF sense.stagr # <<>> THEN sense.stagr ELSE AllReb(entry)

\* The keyword arguments get_senses passes to Sense(...).
SenseKwargs(entry, sense, example) ==
    [stagk |-> get_stagk(entry, sense),
     stagr |-> get_stagr(entry, sense),
     pos |-> sense.pos,
     field |-> sense.field,
     misc |-> sense.misc,
     s_inf |-> sense.s_inf,
     lsource |-> get_lsources(sense),
     dial |-> sense.dial,
     gloss |-> get_gloss(sense),
     example |-> example]

get_senses(entry) ==
    LET one(sense) ==
            LET example == get_examples(sense)
            IN  IF ~example.ok THEN example
                ELSE SenseModel(SenseKwargs(entry, sense, example.value))
        rs == Map(one, entry.sense)
    IN  IF AllOk(rs) THEN Ok(Values(rs)) ELSE Raise(FirstErr(rs))

get_entry(entry) ==
    IF entry.ent_seq = NoEntSeq THEN Raise("AttributeError")
    ELSE LET k_ele == get_kanji(entry)
             r_ele == get_readings(entry)
             sense == get_senses(entry)
         IN  IF ~k_ele.ok THEN k_ele
             ELSE IF ~r_ele.ok THEN r_ele
             ELSE IF ~sense.ok THEN sense
             ELSE Ok([ent_seq |-> entry.ent_seq, k_ele |-> k_ele.value,
                      r_ele |-> r_ele.value, sense |-> sense.value])

(***************************************************************************)
(* The graph store.  MATCH finds the nodes and relationships that fit a    *)
(* pattern; MERGE takes what fits the whole pattern and otherwise creates  *)
(* every part of the pattern that is not already bound.                    *)
(***************************************************************************)
EmptyStore ==
    [next |-> 1,
     Entry |-> {}, Kanji |-> {}, Reading |-> {}, Sense |-> {}, Gloss |-> {},
     Language |-> {}, Sentence |-> {},
     HAS_KANJI |-> {}, HAS_READING |-> {}, IS_READ |-> {}, HAS_SENSE |-> {},
     HAS_GLOSS |-> {}, IS_DEFINED_BY |-> {}, SOURCED_FROM |-> {},
     USED_IN |-> {}, REFERENCES |-> {}]

NodeLabels ==
    {"Entry", "Kanji", "Reading", "Sense", "Gloss", "Language", "Sentence"}

RelTypes ==
    {"HAS_KANJI", "HAS_READING", "IS_READ", "HAS_SENSE", "HAS_GLOSS",
     "IS_DEFINED_BY", "SOURCED_FROM", "USED_IN", "REFERENCES"}

\* MATCH (e:Entry {ent_seq: ent_seq})
MatchEntry(g, ent_seq) == {e \in g.Entry : e.ent_seq = ent_seq}

\* MATCH (e)-[:HAS_KANJI]->(k:Kanji {keb: keb})
KanjiOf(g, e, keb) ==
    {k \in g.Kanji :
        k.keb = keb /\ \E r \in g.HAS_KANJI : r.from = e.id /\ r.to = k.id}

\* MATCH (e)-[:HAS_READING]->(r:Reading {reb: reb})
ReadingOf(g, e, reb) ==
    {r \in g.Reading :
        r.reb = reb /\ \E h \in g.HAS_READING : h.from = e.id /\ h.to = r.id}

\* MATCH (e)-[:HAS_SENSE {rank: rank}]->(s:Sense)
SenseOf(g, e, rank) ==
    {s \in g.Sense :
        \E h \in g.HAS_SENSE :
            h.from = e.id /\ h.to = s.id /\ h.rank = rank}

\* MERGE (a)-[:type]->(b), both ends bound, no properties
MergeRel(g, type, a, b) ==
    IF \E r \in g[type] : r.from = a.id /\ r.to = b.id THEN g
    ELSE [g EXCEPT ![type] = @ \cup {[id |-> g.next, from |-> a.id,
                                      to |-> b.id]},
                   !.next = @ + 1]

(***************************************************************************)
(* transactions.py: merge_and_return_entries                               *)
(***************************************************************************)
\* MERGE (n:Entry {ent_seq: entry.ent_seq})
CreateEntry(g, entry) ==
    [g EXCEPT !.Entry = @ \cup {[id |-> g.next, ent_seq |-> entry.ent_seq]},
              !.next = @ + 1]

MergeEntry(g, entry) ==
    IF MatchEntry(g, entry.ent_seq) # {} THEN g ELSE CreateEntry(g, entry)

merge_and_return_entries(g, es) == FoldLeft(MergeEntry, g, es)

(***************************************************************************)
(* transactions.py: merge_and_return_kanji_for_entries                     *)
(***************************************************************************)
CreateKanji(g, e, kanji) ==
    [g EXCEPT !.Kanji = @ \cup {[id |-> g.next, keb |-> kanji.keb,
                                 ke_inf |-> kanji.ke_inf,
                                 ke_pri |-> kanji.ke_pri]},
              !.HAS_KANJI = @ \cup {[id |-> g.next + 1, from |-> e.id,
                                     to |-> g.next]},
              !.next = @ + 2]

\* A fault: CREATE where the query has MERGE.
MergeKanji_Create(g, e, kanji) == CreateKanji(g, e, kanji)

\* MERGE (e)-[:HAS_KANJI]->(k:Kanji {keb: kanji.keb})
\* ON CREATE SET k.ke_inf = kanji.ke_inf
\* SET k.ke_pri = kanji.ke_pri
\* ON CREATE takes one SET clause; a SET after it is a clause of its own,
\* run for every row whether the node was created or matched.
MergeKanji(g, e, kanji) ==
    LET g1 == IF KanjiOf(g, e, kanji.keb) # {} THEN g
              ELSE CreateKanji(g, e, kanji)
        ks == KanjiOf(g1, e, kanji.keb)
    IN  [g1 EXCEPT !.Kanji =
            {IF k \in ks THEN [k EXCEPT !.ke_pri = kanji.ke_pri] ELSE k :
                k \in @}]

merge_and_return_kanji_for_entries(g, es) ==
    LET row(g1, entry) ==
            LET unwind(g2, kanji) ==
                    FoldNodes(LAMBDA g3, e : MergeKanji(g3, e, kanji), g2,
                              MatchEntry(g2, entry.ent_seq))
            IN  FoldLeft(unwind, g1, entry.k_ele)
    IN  FoldLeft(row, g, es)

(***************************************************************************)
(* transactions.py: merge_and_return_readings_for_entries                  *)
(***************************************************************************)
CreateReading(g, e, reading) ==
    [g EXCEPT !.Reading = @ \cup {[id |-> g.next, reb |-> reading.reb,
                                   re_inf |-> reading.re_inf,
                                   re_pri |-> reading.re_pri,
                                   re_nokanji |-> reading.re_nokanji]},
              !.HAS_READING = @ \cup {[id |-> g.next + 1, from |-> e.id,
                                       to |-> g.next]},
              !.next = @ + 2]

\* MERGE (e)-[:HAS_READING]->(r:Reading {reb: reading.reb})
\* ON CREATE SET r.re_inf = reading.re_inf
\* SET r.re_pri = reading.re_pri
\* SET r.re_nokanji = reading.re_nokanji
MergeReading(g, e, reading) ==
    LET g1 == IF ReadingOf(g, e, reading.reb) # {} THEN g
              ELSE CreateReading(g, e, reading)
        rs == ReadingOf(g1, e, reading.reb)
    IN  [g1 EXCEPT !.Reading =
            {IF r \in rs
             THEN [r EXCEPT !.re_pri = reading.re_pri,
                            !.re_nokanji = reading.re_nokanji]
             ELSE r : r \in @}]

\* A fault: MATCH (k:Kanji {keb: re_restr}), not anchored at the entry.
MergeIsRead_AnyEntry(g, e, r, reading) ==
    LET unwind(g1, re_restr) ==
            FoldNodes(LAMBDA g2, k : MergeRel(g2, "IS_READ", k, r), g1,
                      {k \in g1.Kanji : k.keb = re_restr})
    IN  FoldLeft(unwind, g, reading.re_restr)

\* UNWIND reading.re_restr AS re_restr
\* MATCH (e)-[:HAS_KANJI]->(k:Kanji {keb: re_restr})
\* MERGE (k)-[rel:IS_READ]->(r)
\* An empty re_restr unwinds to no row at all.
MergeIsRead(g, e, r, reading) ==
    LET unwind(g1, re_restr) ==
            FoldNodes(LAMBDA g2, k : MergeRel(g2, "IS_READ", k, r), g1,
                      KanjiOf(g1, e, re_restr))
    IN  FoldLeft(unwind, g, reading.re_restr)

merge_and_return_readings_for_entries(g, es) ==
    LET row(g1, entry) ==
            LET unwind(g2, reading) ==
                    LET one(g3, e) ==
                            LET g4 == MergeReading(g3, e, reading)
                            IN  FoldNodes(
                                    LAMBDA g5, r :
                                        MergeIsRead(g5, e, r, reading),
                                    g4, ReadingOf(g4, e, reading.reb))
                    IN  FoldNodes(one, g2, MatchEntry(g2, entry.ent_seq))
            IN  FoldLeft(unwind, g1, entry.r_ele)
    IN  FoldLeft(row, g, es)

(***************************************************************************)
(* transactions.py: merge_and_return_senses_for_entries                    *)
(***************************************************************************)
\* toString of a rank (its decimal digits) and toInteger of a key
RECURSIVE DecimalDigits(_)
DecimalDigits(n) ==
    IF n < 10 THEN <<n>> ELSE Append(DecimalDigits(n \div 10), n % 10)

toInteger(key) == FoldLeft(LAMBDA a, d : 10 * a + d, 0, key)

\* toStringList(range(1, size(entry.sense)))
toStringList(n) == [i \in 1..n |-> DecimalDigits(i)]

\* apoc.map.setLists({}, keys, values): keys[i] is mapped to values[i]
setLists(keys, values) ==
    [k \in Range(keys) |->
        values[CHOOSE i \in 1..Len(keys) : keys[i] = k]]

\* keys(map): a map's keys come in no promised order; the model tries the
\* order of insertion and its reverse.
KeysOf(keys, order) ==
    IF order = "asc" THEN keys
    ELSE [i \in 1..Len(keys) |-> keys[Len(keys) + 1 - i]]

CreateSense(g, e, rank, sense) ==
    [g EXCEPT !.Sense = @ \cup {[id |-> g.next, pos |-> sense.pos,
                                 field |-> sense.field, misc |-> sense.misc,
                                 s_inf |-> sense.s_inf,
                                 dial |-> sense.dial]},
              !.HAS_SENSE = @ \cup {[id |-> g.next + 1, from |-> e.id,
                                     to |-> g.next, rank |-> rank]},
              !.next = @ + 2]

\* MERGE (e)-[rel:HAS_SENSE {rank: rank}]->(s:Sense)
\* ON CREATE SET s.pos = sense.pos
\* SET s.field = sense.field  SET s.misc = sense.misc
\* SET s.s_inf = sense.s_inf  SET s.dial = sense.dial
MergeSense(g, e, rank, sense) ==
    LET g1 == IF SenseOf(g, e, rank) # {} THEN g
              ELSE CreateSense(g, e, rank, sense)
        ss == SenseOf(g1, e, rank)
    IN  [g1 EXCEPT !.Sense =
            {IF s \in ss
             THEN [s EXCEPT !.field = sense.field, !.misc = sense.misc,
                            !.s_inf = sense.s_inf, !.dial = sense.dial]
             ELSE s : s \in @}]

\* MATCH (s)-[:HAS_GLOSS]->(g:Gloss)
GlossOf(g, s) ==
    {n \in g.Gloss :
        \E h \in g.HAS_GLOSS : h.from = s.id /\ h.to = n.id}

CreateGloss(g, s, sense) ==
    [g EXCEPT !.Gloss = @ \cup {[id |-> g.next,
                                 defn |-> sense.gloss.defn,
                                 expl |-> sense.gloss.expl,
                                 fig |-> sense.gloss.fig,
                                 lit |-> sense.gloss.lit,
                                 tm |-> sense.gloss.tm]},
              !.HAS_GLOSS = @ \cup {[id |-> g.next + 1, from |-> s.id,
                                     to |-> g.next]},
              !.next = @ + 2]

\* apoc.do.when(sense.gloss IS NOT NULL,
\*     MERGE (s)-[:HAS_GLOSS]->(g:Gloss)
\*     ON CREATE SET g.defn = sense.gloss.defn
\*     SET g.expl = ...  SET g.fig = ...  SET g.lit = ...  SET g.tm = ...)
MergeGloss(g, s, sense) ==
    IF sense.gloss = None THEN g
    ELSE LET g1 == IF GlossOf(g, s) # {} THEN g ELSE CreateGloss(g, s, sense)
             ns == GlossOf(g1, s)
         IN  [g1 EXCEPT !.Gloss =
                 {IF n \in ns
                  THEN [n EXCEPT !.expl = sense.gloss.expl,
                                 !.fig = sense.gloss.fig,
                                 !.lit = sense.gloss.lit,
                                 !.tm = sense.gloss.tm]
                  ELSE n : n \in @}]

\* apoc.do.when(size(sense.stagk) > 0,
\*     UNWIND sense.stagk AS keb
\*     MATCH (e)-[:HAS_KANJI]->(k:Kanji {keb: keb})
\*     MERGE (k)-[:IS_DEFINED_BY]->(s) RETURN keb,
\*     RETURN null as keb)
\* rows counts what the call yields: the outer row lives on only if > 0.
MergeStagk(g, e, s, sense) ==
    LET unwind(acc, keb) ==
            LET ks == KanjiOf(acc.g, e, keb)
            IN  [g |-> FoldNodes(LAMBDA g1, k :
                                     MergeRel(g1, "IS_DEFINED_BY", k, s),
                                 acc.g, ks),
                 rows |-> acc.rows + Cardinality(ks)]
    IN  IF Len(sense.stagk) > 0
        THEN FoldLeft(unwind, [g |-> g, rows |-> 0], sense.stagk)
        ELSE [g |-> g, rows |-> 1]

\* A fault: MATCH (r:Reading {reb: reb}), not anchored at the entry.
MergeStagr_AnyEntry(g, e, s, sense) ==
    LET unwind(acc, reb) ==
            LET rs == {r \in acc.g.Reading : r.reb = reb}
            IN  [g |-> FoldNodes(LAMBDA g1, r :
                                     MergeRel(g1, "IS_DEFINED_BY", r, s),
                                 acc.g, rs),
                 rows |-> acc.rows + Cardinality(rs)]
    IN  IF Len(sense.stagr) > 0
        THEN FoldLeft(unwind, [g |-> g, rows |-> 0], sense.stagr)
        ELSE [g |-> g, rows |-> 1]

\* The same for sense.stagr and (e)-[:HAS_READING]->(r:Reading {reb: reb}).
MergeStagr(g, e, s, sense) ==
    LET unwind(acc, reb) ==
            LET rs == ReadingOf(acc.g, e, reb)
            IN  [g |-> FoldNodes(LAMBDA g1, r :
                                     MergeRel(g1, "IS_DEFINED_BY", r, s),
                                 acc.g, rs),
                 rows |-> acc.rows + Cardinality(rs)]
    IN  IF Len(sense.stagr) > 0
        THEN FoldLeft(unwind, [g |-> g, rows |-> 0], sense.stagr)
        ELSE [g |-> g, rows |-> 1]

\* MERGE (l:Language {name: lsource.lang.name})
MergeLanguage(g, name) ==
    IF \E l \in g.Language : l.name = name THEN g
    ELSE [g EXCEPT !.Language = @ \cup {[id |-> g.next, name |-> name]},
                   !.next = @ + 1]

\* MERGE (s)-[r:SOURCED_FROM]->(l)
\* ON CREATE SET r.phrase = lsource.phrase
\* SET r.partial = lsource.partial
\* SET r.wasei = lsource.wasei
MergeSourcedFrom(g, s, l, lsource) ==
    LET g1 == IF \E r \in g.SOURCED_FROM : r.from = s.id /\ r.to = l.id
              THEN g
              ELSE [g EXCEPT !.SOURCED_FROM =
                        @ \cup {[id |-> g.next, from |-> s.id, to |-> l.id,
                                 phrase |-> lsource.phrase,
                                 partial |-> lsource.partial,
                                 wasei |-> lsource.wasei]},
                             !.next = @ + 1]
    IN  [g1 EXCEPT !.SOURCED_FROM =
            {IF r.from = s.id /\ r.to = l.id
             THEN [r EXCEPT !.partial = lsource.partial,
                            !.wasei = lsource.wasei]
             ELSE r : r \in @}]

\* apoc.do.when(size(sense.lsource) > 0, UNWIND sense.lsource as lsource ...)
MergeLsources(g, s, sense) ==
    LET unwind(g1, lsource) ==
            LET g2 == MergeLanguage(g1, lsource.lang.name)
            IN  FoldNodes(LAMBDA g3, l : MergeSourcedFrom(g3, s, l, lsource),
                          g2,
                          {l \in g2.Language : l.name = lsource.lang.name})
    IN  FoldLeft(unwind, g, sense.lsource)

\* MATCH (e:Sentence {exsrc_type: ..., ex_srce: ...})
MatchSentence(g, sentence) ==
    {n \in g.Sentence :
        n.exsrc_type = sentence.exsrc_type /\ n.ex_srce = sentence.ex_srce}

CreateSentence(g, sentence) ==
    [g EXCEPT !.Sentence = @ \cup {[id |-> g.next,
                                    exsrc_type |-> sentence.exsrc_type,
                                    ex_srce |-> sentence.ex_srce,
                                    eng |-> sentence.eng,
                                    jpn |-> sentence.jpn]},
              !.next = @ + 1]

\* MERGE (e:Sentence {exsrc_type: ..., ex_srce: ...})
\* ON CREATE SET e.eng = example.sentence.eng
\* SET e.jpn = example.sentence.jpn
MergeSentence(g, sentence) ==
    LET g1 == IF MatchSentence(g, sentence) # {} THEN g
              ELSE CreateSentence(g, sentence)
        ns == MatchSentence(g1, sentence)
    IN  [g1 EXCEPT !.Sentence =
            {IF n \in ns THEN [n EXCEPT !.jpn = sentence.jpn] ELSE n :
                n \in @}]

\* MERGE (s)-[r:USED_IN]->(e) ON CREATE SET r.ex_text = example.ex_text
MergeUsedIn(g, s, n, example) ==
    IF \E r \in g.USED_IN : r.from = s.id /\ r.to = n.id THEN g
    ELSE [g EXCEPT !.USED_IN =
                       @ \cup {[id |-> g.next, from |-> s.id, to |-> n.id,
                                ex_text |-> example.ex_text]},
                   !.next = @ + 1]

\* apoc.do.when(size(sense.example) > 0, UNWIND sense.example as example ...)
MergeExamples(g, s, sense) ==
    LET unwind(g1, example) ==
            LET g2 == MergeSentence(g1, example.sentence)
            IN  FoldNodes(LAMBDA g3, n : MergeUsedIn(g3, s, n, example),
                          g2, MatchSentence(g2, example.sentence))
    IN  FoldLeft(unwind, g, sense.example)

\* Everything the query does for one (e, s, sense) row after the Sense node
\* is merged.  A call that yields no row ends the row: the calls after it
\* are not made for this sense.
SenseRow(g, e, s, sense) ==
    LET g1 == MergeGloss(g, s, sense)
        k == MergeStagk(g1, e, s, sense)
        r == MergeStagr(k.g, e, s, sense)
    IN  IF k.rows = 0 THEN k.g
        ELSE IF r.rows = 0 THEN r.g
        ELSE MergeExamples(MergeLsources(r.g, s, sense), s, sense)

merge_and_return_senses_for_entries(g, es, order) ==
    LET row(g1, entry) ==
            LET keys == toStringList(Len(entry.sense))
                map == setLists(keys, entry.sense)
                unwind(g2, key) ==
                    LET rank == toInteger(key)
                        sense == map[key]
                        one(g3, e) ==
                            LET g4 == MergeSense(g3, e, rank, sense)
                            IN  FoldNodes(
                                    LAMBDA g5, s : SenseRow(g5, e, s, sense),
                                    g4, SenseOf(g4, e, rank))
                    IN  FoldNodes(one, g2, MatchEntry(g2, entry.ent_seq))
            IN  FoldLeft(unwind, g1, KeysOf(keys, order))
    IN  FoldLeft(row, g, es)

(***************************************************************************)
(* transactions.py: merge_and_return_sense_xrefs_for_entries               *)
(***************************************************************************)
\* The nodes that carry a label.  Labels are case-sensitive: a label no node
\* was created with matches nothing.
NodesLabelled(g, label) == IF label \in DOMAIN g THEN g[label] ELSE {}

\* keb_subquery: MATCH (oe:Entry)-[:HAS_KANJI]->(:Kanji {keb: keb}) RETURN oe
\* One row per match; a null keb equals nothing.
keb_subquery(g, keb) ==
    {m \in g.Entry \X {h.id : h \in g.HAS_KANJI} :
        \E h \in g.HAS_KANJI, k \in NodesLabelled(g, "Kanji") :
            /\ h.id = m[2] /\ h.from = m[1].id /\ h.to = k.id
            /\ keb # NULL /\ k.keb = keb}

\* reb_subquery:
\* MATCH (oe:Entry)-[:HAS_READING]->(:READING {reb: reb}) RETURN oe
reb_subquery(g, reb) ==
    {m \in g.Entry \X {h.id : h \in g.HAS_READING} :
        \E h \in g.HAS_READING, r \in NodesLabelled(g, "READING") :
            /\ h.id = m[2] /\ h.from = m[1].id /\ h.to = r.id
            /\ reb # NULL /\ r.reb = reb}

\* else_subquery:
\* MATCH (:Kanji {keb: keb})<-[:HAS_KANJI]-(oe:Entry)-[:HAS_READING]->
\*       (:READING {reb: reb}) RETURN oe
else_subquery(g, keb, reb) ==
    {m \in g.Entry \X ({hk.id : hk \in g.HAS_KANJI}
                        \X {hr.id : hr \in g.HAS_READING}) :
        \E hk \in g.HAS_KANJI, k \in NodesLabelled(g, "Kanji"),
           hr \in g.HAS_READING, r \in NodesLabelled(g, "READING") :
            /\ hk.id = m[2][1] /\ hk.from = m[1].id /\ hk.to = k.id
            /\ hr.id = m[2][2] /\ hr.from = m[1].id /\ hr.to = r.id
            /\ k.keb = keb /\ r.reb = reb}

\* apoc.case([row.xref.reb IS NULL, keb_subquery,
\*            row.xref.keb IS NULL, reb_subquery], else_subquery, ...)
\* The matches found, each <<oe, how it matched>>.
Candidates(g, x) ==
    IF x.reb = NULL THEN keb_subquery(g, x.keb)
    ELSE IF x.keb = NULL THEN reb_subquery(g, x.reb)
    ELSE else_subquery(g, x.keb, x.reb)

\* CALL { UNWIND sense.xref ... UNION UNWIND sense.ant ... }: the rows
\* {xref, antonym} of one sense, duplicates removed.
XrefRows(sense) ==
    LET all == Map(LAMBDA x : [xref |-> x, antonym |-> FALSE], sense.xref)
               \o Map(LAMBDA x : [xref |-> x, antonym |-> TRUE], sense.ant)
        keep(acc, row) == IF row \in Range(acc) THEN acc ELSE Append(acc, row)
    IN  FoldLeft(keep, <<>>, all)

\* A fault: MERGE (src)-[rel:REFERENCES]->(dest) ON CREATE SET rel.antonym,
\* a relationship of either kind counts as the one sought.
MergeReferences_AnyKind(g, src, dest, antonym) ==
    IF \E r \in g.REFERENCES : r.from = src.id /\ r.to = dest.id
    THEN g
    ELSE [g EXCEPT !.REFERENCES =
                       @ \cup {[id |-> g.next, from |-> src.id,
                                to |-> dest.id, antonym |-> antonym]},
                   !.next = @ + 1]

\* MERGE (src)-[rel:REFERENCES {antonym: row.antonym}]->(dest)
MergeReferences(g, src, dest, antonym) ==
    IF \E r \in g.REFERENCES :
           r.from = src.id /\ r.to = dest.id /\ r.antonym = antonym
    THEN g
    ELSE [g EXCEPT !.REFERENCES =
                       @ \cup {[id |-> g.next, from |-> src.id,
                                to |-> dest.id, antonym |-> antonym]},
                   !.next = @ + 1]

\* A fault: of several candidates the first is taken.
OtherEntry_First(other_entries) ==
    IF other_entries = <<>> THEN <<>> ELSE <<Head(other_entries)>>

\* CASE WHEN size(other_entries) = 1 THEN other_entries ELSE [] END
OtherEntry(other_entries) ==
    IF Len(other_entries) = 1 THEN other_entries ELSE <<>>

\* collect(value.oe): the entries of the matches, one per match
Collect(matches) ==
    LET RECURSIVE list(_)
        list(ms) ==
            IF ms = {} THEN <<>>
            ELSE LET m == CHOOSE x \in ms : TRUE
                 IN  <<m[1]>> \o list(ms \ {m})
    IN  list(matches)

\* A fault: the WHERE clause on the rank is missing.
Resolve_AnyRank(g, src, row, other_entries) ==
    LET unwind(g1, oe) ==
            LET dests == {d \in g1.Sense :
                            \E orel \in g1.HAS_SENSE :
                                orel.from = oe.id /\ orel.to = d.id}
            IN  FoldNodes(LAMBDA g2, dest :
                              MergeReferences(g2, src, dest, row.antonym),
                          g1, dests)
    IN  FoldLeft(unwind, g, OtherEntry(other_entries))

\* UNWIND other_entry as oe
\* MATCH (oe:Entry)-[orel:HAS_SENSE]->(dest:Sense)
\* WHERE row.xref.rank IS NULL OR orel.rank = row.xref.rank
\* MERGE (src)-[rel:REFERENCES {antonym: row.antonym}]->(dest)
Resolve(g, src, row, other_entries) ==
    LET unwind(g1, oe) ==
            LET dests == {d \in g1.Sense :
                            \E orel \in g1.HAS_SENSE :
                                /\ orel.from = oe.id /\ orel.to = d.id
                                /\ (row.xref.rank = NoRank
                                    \/ orel.rank = row.xref.rank)}
            IN  FoldNodes(LAMBDA g2, dest :
                              MergeReferences(g2, src, dest, row.antonym),
                          g1, dests)
    IN  FoldLeft(unwind, g, OtherEntry(other_entries))

\* The (row, src) pairs the query reaches, in order, one per occurrence.
XrefOccurrences(g, es, order) ==
    LET row(acc, entry) ==
            LET keys == toStringList(Len(entry.sense))
                map == setLists(keys, entry.sense)
                unwind(acc1, key) ==
                    LET one(acc2, src) ==
                            acc2 \o Map(LAMBDA r : [row |-> r, src |-> src],
                                        XrefRows(map[key]))
                    IN  FoldNodes(one, acc1,
                                  UNION {SenseOf(g, e, toInteger(key)) :
                                         e \in MatchEntry(g, entry.ent_seq)})
            IN  FoldLeft(unwind, acc, KeysOf(keys, order))
    IN  FoldLeft(row, <<>>, es)

\* WITH row, src, collect(value.oe) as other_entries: one group per distinct
\* (row, src), holding the matches of all its occurrences.
merge_and_return_sense_xrefs_for_entries(g, es, order) ==
    LET occs == XrefOccurrences(g, es, order)
        groups == FoldLeft(LAMBDA acc, o :
                               IF o \in Range(acc) THEN acc
                               ELSE Append(acc, o),
                           <<>>, occs)
        times(o) == Cardinality({i \in 1..Len(occs) : occs[i] = o})
        collected(o) ==
            LET once == Collect(Candidates(g, o.row.xref))
            IN  FoldLeft(LAMBDA acc, i : acc \o once, <<>>,
                         [i \in 1..times(o) |-> i])
        step(g1, o) == Resolve(g1, o.src, o.row, collected(o))
    IN  FoldLeft(step, g, groups)

(***************************************************************************)
(* __main__.py: grouper, run and main; app.py: the Neo4Japanese methods.   *)
(***************************************************************************)
NumGroups(seq, n) == (Len(seq) + n - 1) \div n

\* A fault: the last group is filled up with the last element, not with None.
grouper_Repeat(seq, n) ==
    [b \in 1..NumGroups(seq, n) |->
        [i \in 1..n |->
            IF (b - 1) * n + i <= Len(seq) THEN seq[(b - 1) * n + i]
            ELSE seq[Len(seq)]]]

\* itertools.zip_longest(*[iter(iterable)] * n): groups of n, the last one
\* filled up with None.
grouper(seq, n) ==
    [b \in 1..NumGroups(seq, n) |->
        [i \in 1..n |->
            IF (b - 1) * n + i <= Len(seq) THEN seq[(b - 1) * n + i]
            ELSE None]]

\* [... for entry in entries if entry is not None]
DropNone(group) == SelectSeq(group, LAMBDA entry : entry # None)

Stages == <<"entries", "kanji", "readings", "senses">>

StagePcs == {"add_entries", "add_kanji", "add_readings", "add_senses"}

Tx(stage) == [run |-> run_no, batch |-> batch, stage |-> stage]

\* Exceptions that are not subclasses of Exception.
BaseExceptions == {"KeyboardInterrupt", "SystemExit", "GeneratorExit"}

\* main() returns nothing: the exception leaves it.
Escapes == -2

\* A fault: main() without its except KeyboardInterrupt clause.
main_ExceptionOnly(exc) ==
    IF exc = NULL THEN 0
    ELSE IF exc \notin BaseExceptions THEN 1
    ELSE Escapes

\* main(): try: run(args); except KeyboardInterrupt: return 1;
\* except Exception as exc: return 1; return 0.  exc is how run() ended.
main(exc) ==
    IF exc = NULL THEN 0
    ELSE IF exc = "KeyboardInterrupt" THEN 1
    ELSE IF exc \notin BaseExceptions THEN 1
    ELSE Escapes

\* run() is left and its frame gives up the only reference to neo_app.
\* Neither run() nor main() calls close(): the driver is closed by __del__,
\* when the interpreter finalizes the object, which may be at once (the
\* reference count drops to zero) or at any later time.
LeaveRun == driver' \in (IF driver = "open" THEN {"open", "closed"}
                         ELSE {driver})

\* A fault: the exception is logged and the failed group is tried again.
Raised_Retry(exc) ==
    /\ pc' = "batch"
    /\ error' = exc
    /\ exit_code' = exit_code
    /\ driver' = driver

\* run() raises exc: main() catches it, or it leaves main().
Raised(exc) ==
    /\ pc' = "failed"
    /\ error' = exc
    /\ exit_code' = main(exc)
    /\ LeaveRun

\* run(): connect, create the constraints and indices, parse the XML file.
Start ==
    /\ pc = "start"
    /\ pc' = "batch"
    /\ batch' = 0
    /\ driver' = "open"
    /\ UNCHANGED <<all_entries, records, batch_size, key_order, entries,
                   store, committed, run_no, store_after_first, xref_calls,
                   exit_code, xref, result, error>>

\* run(): the next group of the loop, each element parsed by get_entry.  An
\* exception of get_entry leaves the loop, and main() returns 1.
ParseBatch ==
    /\ pc = "batch"
    /\ batch < NumGroups(all_entries, batch_size)
    /\ LET group == grouper(all_entries, batch_size)[batch + 1]
           rs == Map(get_entry, DropNone(group))
       IN  IF AllOk(rs)
           THEN /\ entries' = Values(rs)
                /\ pc' = "add_entries"
                /\ UNCHANGED <<exit_code, error, driver>>
           ELSE /\ Raised(FirstErr(rs))
                /\ UNCHANGED entries
    /\ UNCHANGED <<all_entries, records, batch_size, key_order, batch, store,
                   committed, run_no, store_after_first, xref_calls, xref,
                   result>>

\* A client that holds models.Entry objects hands the next group of them to
\* the Neo4Japanese methods.
GivenBatch ==
    /\ pc = "batch"
    /\ batch < NumGroups(records, batch_size)
    /\ entries' = DropNone(grouper(records, batch_size)[batch + 1])
    /\ pc' = "add_entries"
    /\ UNCHANGED <<all_entries, records, batch_size, key_order, batch, store,
                   committed, run_no, store_after_first, xref_calls,
                   exit_code, xref, result, error, driver>>

\* One Neo4Japanese.add_* method: entries[0] and entries[-1] are logged
\* (IndexError on an empty list), then one write transaction runs and commits.
AppCall(here, stage, after, next) ==
    /\ pc = here
    /\ IF entries = <<>>
       THEN /\ Raised("IndexError")
            /\ UNCHANGED <<store, committed>>
       ELSE /\ store' = after
            /\ committed' = committed \cup {Tx(stage)}
            /\ pc' = next
            /\ UNCHANGED <<exit_code, error, driver>>
    /\ UNCHANGED <<all_entries, records, batch_size, key_order, entries,
                   run_no, store_after_first, xref_calls, xref, result>>

\* A fault: the call of add_kanji_for_entries is missing from the loop.
add_entries_NoKanji ==
    /\ AppCall("add_entries", "entries",
               merge_and_return_entries(store, entries), "add_readings")
    /\ UNCHANGED batch

add_entries ==
    /\ AppCall("add_entries", "entries",
               merge_and_return_entries(store, entries), "add_kanji")
    /\ UNCHANGED batch

add_kanji_for_entries ==
    /\ AppCall("add_kanji", "kanji",
               merge_and_return_kanji_for_entries(store, entries),
               "add_readings")
    /\ UNCHANGED batch

add_readings_for_entries ==
    /\ AppCall("add_readings", "readings",
               merge_and_return_readings_for_entries(store, entries),
               "add_senses")
    /\ UNCHANGED batch

\* The last call of the loop body: the loop goes on to the next group.
add_senses_for_entries ==
    /\ AppCall("add_senses", "senses",
               merge_and_return_senses_for_entries(store, entries, key_order),
               "batch")
    /\ batch' = IF entries = <<>> THEN batch ELSE batch + 1

\* session.write_transaction raises (the store or the connection fails): the
\* transaction is rolled back, run() is left, main() returns 1.
StoreFailure ==
    /\ pc \in StagePcs
    /\ Raised("ServiceUnavailable")
    /\ UNCHANGED <<all_entries, records, batch_size, key_order, batch,
                   entries, store, committed, run_no, store_after_first,
                   xref_calls, xref, result>>

\* run(): the loop is exhausted, run() returns and main() returns 0.
LoopEnd ==
    /\ pc = "batch"
    /\ batch = NumGroups(all_entries, batch_size)
    /\ pc' = "done"
    /\ exit_code' = main(NULL)
    /\ LeaveRun
    /\ UNCHANGED <<all_entries, records, batch_size, key_order, batch,
                   entries, store, committed, run_no, store_after_first,
                   xref_calls, xref, result, error>>

\* run(): the constructor of Neo4Japanese, a create_* call, open() or
\* etree.parse raises.  The object may or may not have been made.
SetupFailure ==
    /\ pc = "start"
    /\ \E exc \in {"ServiceUnavailable", "FileNotFoundError",
                    "XMLSyntaxError"} :
           /\ pc' = "failed"
           /\ error' = exc
           /\ exit_code' = main(exc)
    /\ driver' \in {"none", "open", "closed"}
    /\ UNCHANGED <<all_entries, records, batch_size, key_order, batch,
                   entries, store, committed, run_no, store_after_first,
                   xref_calls, xref, result>>

\* The user presses Ctrl-C while run() is under way: KeyboardInterrupt is
\* raised in run(), an open transaction is rolled back.
Interrupt ==
    /\ pc \in {"start", "batch"} \cup StagePcs
    /\ Raised("KeyboardInterrupt")
    /\ UNCHANGED <<all_entries, records, batch_size, key_order, batch,
                   entries, store, committed, run_no, store_after_first,
                   xref_calls, xref, result>>

\* Neo4Japanese.__del__: the interpreter finalizes the object that run()
\* left behind; close() closes the driver.
Neo4Japanese_del ==
    /\ pc \in {"done", "failed"}
    /\ driver = "open"
    /\ driver' = "closed"
    /\ UNCHANGED <<all_entries, records, batch_size, key_order, pc, batch,
                   entries, store, committed, run_no, store_after_first,
                   xref_calls, exit_code, xref, result, error>>

\* The client has loaded every group and turns to the cross-references.
Loaded ==
    /\ pc = "batch"
    /\ batch = NumGroups(records, batch_size)
    /\ pc' = "xref"
    /\ batch' = 0
    /\ UNCHANGED <<all_entries, records, batch_size, key_order, entries,
                   store, committed, run_no, store_after_first, xref_calls,
                   exit_code, xref, result, error, driver>>

\* Neo4Japanese.add_xref_relationships_for_entries on the next group.
add_xref_relationships_for_entries ==
    /\ pc = "xref"
    /\ batch < NumGroups(records, batch_size)
    /\ LET es == DropNone(grouper(records, batch_size)[batch + 1])
       IN  /\ entries' = es
           /\ store' = merge_and_return_sense_xrefs_for_entries(
                           store, es, key_order)
    /\ committed' = committed \cup {Tx("xrefs")}
    /\ xref_calls' = xref_calls + 1
    /\ batch' = batch + 1
    /\ UNCHANGED <<all_entries, records, batch_size, key_order, pc, run_no,
                   store_after_first, exit_code, xref, result, error, driver>>

\* The client has resolved the cross-references of every group.
Resolved ==
    /\ pc = "xref"
    /\ batch = NumGroups(records, batch_size)
    /\ pc' = "done"
    /\ UNCHANGED <<all_entries, records, batch_size, key_order, batch,
                   entries, store, committed, run_no, store_after_first,
                   xref_calls, exit_code, xref, result, error, driver>>

\* The program is started again over the same corpus and the same store.
Rerun ==
    /\ pc = "done"
    /\ run_no < MaxRuns
    /\ run_no' = run_no + 1
    /\ store_after_first' = IF run_no = 1 THEN store ELSE store_after_first
    /\ pc' = "start"
    /\ exit_code' = -1
    /\ error' = NULL
    /\ driver' = "none"
    /\ UNCHANGED <<all_entries, records, batch_size, key_order, batch,
                   entries, store, committed, xref_calls, xref, result>>

(***************************************************************************)
(* The corpora tried.  An entry takes its ent_seq from its place in the    *)
(* file, so the sequence numbers of a corpus are distinct.                 *)
(***************************************************************************)
KEle(keb) == [keb |-> keb, ke_inf |-> <<>>, ke_pri |-> <<>>]

REle(reb, re_restr) ==
    [reb |-> reb, re_nokanji |-> FALSE, re_restr |-> re_restr,
     re_inf |-> <<>>, re_pri |-> <<>>]

ExSent == <<[lang |-> "jpn", text |-> "jpn text"],
            [lang |-> NULL, text |-> "eng text"]>>

\* The same sentence as another edition of the corpus words it.
ExSentRevised == <<[lang |-> "jpn", text |-> "jpn text, revised"],
                   [lang |-> NULL, text |-> "eng text, revised"]>>

ExampleElem(exsrc_type, ex_srce, ex_text) ==
    [exsrc_type |-> exsrc_type, ex_srce |-> ex_srce, ex_text |-> ex_text,
     ex_sent |-> ExSent]

SenseElem(stagk, stagr, pos, example) ==
    [stagk |-> stagk, stagr |-> stagr, pos |-> <<pos>>, field |-> <<>>,
     misc |-> <<>>, s_inf |-> <<>>, dial |-> <<>>, lsource |-> <<>>,
     gloss |-> <<[g_type |-> NULL, text |-> "meaning"]>>,
     example |-> example, xref |-> <<>>, ant |-> <<>>]

\* The <entry> elements tried, without their ent_seq.
XmlShapes ==
    { \* two headwords, a reading with no re_restr
      [k_ele |-> <<KEle("kA"), KEle("kB")>>,
       r_ele |-> <<REle("rA", <<>>)>>, sense |-> <<>>],
      \* a reading restricted to a headword, one to a form not in the entry
      [k_ele |-> <<KEle("kA"), KEle("kB")>>,
       r_ele |-> <<REle("rA", <<"kA">>), REle("rB", <<"kZ">>)>>,
       sense |-> <<>>],
      \* a kana-only entry
      [k_ele |-> <<>>, r_ele |-> <<REle("rA", <<>>)>>, sense |-> <<>>],
      \* an entry with no <ent_seq>
      [ent_seq |-> NoEntSeq, k_ele |-> <<KEle("kA")>>,
       r_ele |-> <<REle("rA", <<>>)>>, sense |-> <<>>],
      \* a <k_ele> with no <keb>
      [k_ele |-> <<KEle("kA"), KEle(NULL)>>, r_ele |-> <<REle("rA", <<>>)>>,
       sense |-> <<>>],
      \* a <reb> with no text
      [k_ele |-> <<>>, r_ele |-> <<REle("rA", <<>>), REle(NoText, <<>>)>>,
       sense |-> <<>>],
      \* an entry with a sense
      [k_ele |-> <<KEle("kA")>>, r_ele |-> <<REle("rA", <<>>)>>,
       sense |-> <<SenseElem(<<>>, <<>>, "n", <<>>)>>],
      \* a sense with a Tatoeba example
      [k_ele |-> <<KEle("kB")>>, r_ele |-> <<REle("rB", <<>>)>>,
       sense |-> <<SenseElem(<<>>, <<>>, "n",
                             <<ExampleElem("tat", 100041, "use")>>)>>],
      \* an example of another source type
      [k_ele |-> <<KEle("kA")>>, r_ele |-> <<REle("rA", <<>>)>>,
       sense |-> <<SenseElem(<<>>, <<>>, "n",
                             <<ExampleElem("other", 7, "use")>>)>>],
      \* an example with no exsrc_type attribute
      [k_ele |-> <<>>, r_ele |-> <<REle("rB", <<>>)>>,
       sense |-> <<SenseElem(<<>>, <<>>, "v",
                             <<ExampleElem(NULL, 7, "use")>>)>>] }

WithEntSeq(shapes) ==
    [i \in 1..Len(shapes) |->
        [ent_seq |-> IF "ent_seq" \in DOMAIN shapes[i]
                     THEN shapes[i].ent_seq ELSE i,
         k_ele |-> shapes[i].k_ele,
         r_ele |-> shapes[i].r_ele, sense |-> shapes[i].sense]]

Corpora(shapes) ==
    {WithEntSeq(c) : c \in SeqsUpTo(shapes, MaxCorpus) \ {<<>>}}

\* The Xref object of a <xref> or <ant> element.
Xref(tag, keb, reb, rank) ==
    [tag |-> tag, keb |-> keb, reb |-> reb, rank |-> rank]

SenseElemX(stagk, stagr, pos, example, xrefs, ants) ==
    [SenseElem(stagk, stagr, pos, example) EXCEPT !.xref = xrefs,
                                                  !.ant = ants]

\* Sense(...) and Entry(...) given every field the models require: what
\* get_senses passes, and the Xref objects of the sense's xref and ant elements.
SenseOfClient(entry, sense) ==
    [stagk |-> get_stagk(entry, sense),
     stagr |-> get_stagr(entry, sense),
     pos |-> sense.pos,
     xref |-> sense.xref,
     ant |-> sense.ant,
     field |-> sense.field,
     misc |-> sense.misc,
     s_inf |-> sense.s_inf,
     lsource |-> get_lsources(sense),
     dial |-> sense.dial,
     gloss |-> get_gloss(sense),
     example |-> get_examples(sense).value]

EntryOfClient(entry) ==
    [ent_seq |-> entry.ent_seq,
     k_ele |-> get_kanji(entry).value,
     r_ele |-> get_readings(entry).value,
     sense |-> Map(LAMBDA sense : SenseOfClient(entry, sense), entry.sense)]

\* An <lsource> element.
LsourceElem(lang, phrase, ls_type, ls_wasei) ==
    [lang |-> lang, text |-> phrase, ls_type |-> ls_type,
     ls_wasei |-> ls_wasei]

\* Two loan sources of one language and one of the default language.
LoanSources ==
    <<LsourceElem("ger", "Arbeit", NULL, NULL),
      LsourceElem("ger", "Teil", "partial", "y"),
      LsourceElem(NULL, "part", NULL, NULL)>>

GlossElem(g_type, gloss) == [g_type |-> g_type, text |-> gloss]

\* The <entry> elements a client loads, without their ent_seq.
ClientShapes ==
    { \* two senses with no restriction that use one sentence; a reference
      \* to the headword kA; three loan sources in the second sense
      [k_ele |-> <<KEle("kA")>>, r_ele |-> <<REle("rA", <<>>)>>,
       sense |-> <<SenseElemX(<<>>, <<>>, "n",
                              <<ExampleElem("tat", 100041, "use 1")>>,
                              <<Xref("xref", "kA", NULL, NoRank)>>, <<>>),
                   [SenseElemX(<<>>, <<>>, "v",
                               <<ExampleElem("tat", 100041, "use 2")>>,
                               <<>>, <<>>)
                       EXCEPT !.lsource = LoanSources]>>],
      \* a sense restricted to a headword that is not in the entry
      [k_ele |-> <<KEle("kA"), KEle("kB")>>,
       r_ele |-> <<REle("rA", <<>>), REle("rB", <<"kA">>)>>,
       sense |-> <<SenseElemX(<<"kZ">>, <<>>, "n",
                              <<ExampleElem("tat", 100041, "use 3")>>,
                              <<>>, <<>>)>>],
      \* a reading and a sense restricted to the entry's own forms and to
      \* forms that other entries have (kA, kC, rC); references to the
      \* headword kB and to sense 2 of the headword kA, an antonym kA
      [k_ele |-> <<KEle("kB")>>, r_ele |-> <<REle("rB", <<"kB", "kA">>)>>,
       sense |-> <<SenseElemX(<<"kB", "kC">>, <<"rB", "rC">>, "adj", <<>>,
                              <<Xref("xref", "kB", NULL, NoRank),
                                Xref("xref", "kA", NULL, 2)>>,
                              <<Xref("ant", "kA", NULL, NoRank)>>)>>],
      \* a sense restricted to a reading; a reference to the reading rB;
      \* definitions of three types, one of them not a known type
      [k_ele |-> <<KEle("kA"), KEle("kC")>>,
       r_ele |-> <<REle("rA", <<>>), REle("rC", <<>>)>>,
       sense |-> <<[SenseElemX(<<>>, <<"rC">>, "n", <<>>,
                               <<Xref("xref", NULL, "rB", NoRank)>>,
                               <<>>)
                       EXCEPT !.gloss = <<GlossElem("lit", "literal"),
                                          GlossElem("slang", "dropped"),
                                          GlossElem(NULL, "meaning"),
                                          GlossElem("lit", "literal 2")>>]>>],
      \* a kana-only entry that words sentence 100041 differently; a
      \* reference to sense 1 of kA read rB; its one definition is of no
      \* known type
      [k_ele |-> <<>>, r_ele |-> <<REle("rA", <<>>)>>,
       sense |-> <<[SenseElemX(<<>>, <<>>, "n",
                               <<[ExampleElem("tat", 100041, "use 4")
                                     EXCEPT !.ex_sent = ExSentRevised]>>,
                               <<Xref("xref", "kA", "rB", 1)>>,
                               <<>>)
                       EXCEPT !.gloss = <<GlossElem("slang", "dropped")>>]>>] }

InitCommon ==
    /\ batch_size \in 1..MaxBatchSize
    /\ key_order \in {"asc", "desc"}
    /\ pc = "start"
    /\ batch = 0
    /\ entries = <<>>
    /\ store = EmptyStore
    /\ committed = {}
    /\ run_no = 1
    /\ store_after_first = EmptyStore
    /\ xref_calls = 0
    /\ exit_code = -1
    /\ xref = <<>>
    /\ result = None
    /\ error = NULL
    /\ driver = "none"

(***************************************************************************)
(* Spec: the program as main() runs it over an XML file.                   *)
(***************************************************************************)
Init ==
    /\ all_entries \in Corpora(XmlShapes)
    /\ records = <<>>
    /\ InitCommon

Next ==
    \/ Start
    \/ ParseBatch
    \/ add_entries
    \/ add_kanji_for_entries
    \/ add_readings_for_entries
    \/ add_senses_for_entries
    \/ StoreFailure
    \/ SetupFailure
    \/ Interrupt
    \/ LoopEnd
    \/ Neo4Japanese_del
    \/ Rerun

Spec == Init /\ [][Next]_vars

(***************************************************************************)
(* EngineSpec: a client builds the Entry objects with every field the      *)
(* models require and drives the Neo4Japanese methods with them: the four  *)
(* add_* calls for each group, in the order of run(), then                 *)
(* add_xref_relationships_for_entries for each group.                      *)
(***************************************************************************)
EngineInit ==
    /\ all_entries \in Corpora(ClientShapes)
    /\ records = Map(EntryOfClient, all_entries)
    /\ InitCommon

EngineNext ==
    \/ Start
    \/ GivenBatch
    \/ add_entries
    \/ add_kanji_for_entries
    \/ add_readings_for_entries
    \/ add_senses_for_entries
    \/ Loaded
    \/ add_xref_relationships_for_entries
    \/ Resolved
    \/ Rerun

EngineSpec == EngineInit /\ [][EngineNext]_vars

(***************************************************************************)
(* jmdict_parser.py: is_kana and parse_xref.  A string is the sequence of  *)
(* its code points; a dict is a function on its keys.                      *)
(***************************************************************************)
KANA_DOT == 12539                              \* '・'

HIRAGANA == <<12352, 12447>>                   \* ('぀', 'ゟ')

KATAKANA == <<12448, 12543>>                   \* ('゠', 'ヿ')

KATAKANA_PHONETIC_EXT == <<12784, 12799>>      \* ('ㇰ', 'ㇿ')

\* A fault: only the hiragana block counts as kana.
is_kana_hiragana(string) ==
    \A i \in 1..Len(string) :
        HIRAGANA[1] <= string[i] /\ string[i] <= HIRAGANA[2]

\* for c in string: ... if not result: return result ... return True
is_kana(string) ==
    \A i \in 1..Len(string) :
        \E range \in {HIRAGANA, KATAKANA, KATAKANA_PHONETIC_EXT} :
            range[1] <= string[i] /\ string[i] <= range[2]

\* str.isdigit on the characters used here: '0'..'9', and not the empty string.
isdigit(token) ==
    /\ token # <<>>
    /\ \A i \in 1..Len(token) : 48 <= token[i] /\ token[i] <= 57

\* int(token) of a string of decimal digits.
int(token) == FoldLeft(LAMBDA acc, c : acc * 10 + (c - 48), 0, token)

\* str.split(sep): the pieces between the separators, empty ones included.
split(string, sep) ==
    LET step(acc, c) ==
            IF c = sep THEN Append(acc, <<>>)
            ELSE [acc EXCEPT ![Len(acc)] = Append(@, c)]
    IN  FoldLeft(step, <<(<<>>)>>, string)

\* result[key] = value
SetItem(dict, key, value) ==
    [k \in DOMAIN dict \cup {key} |-> IF k = key THEN value ELSE dict[k]]

EmptyDict == [k \in {} |-> 0]

\* A fault: a key that is already set is not set again.
parse_xref_First(string) ==
    LET put(res, key, value) ==
            IF key \in DOMAIN res THEN res ELSE SetItem(res, key, value)
        step(res, token) ==
            IF isdigit(token) THEN put(res, "sense", int(token))
            ELSE IF is_kana(token) THEN put(res, "reb", token)
            ELSE put(res, "keb", token)
    IN  FoldLeft(step, EmptyDict, split(string, KANA_DOT))

parse_xref(string) ==
    LET step(res, token) ==
            IF isdigit(token) THEN SetItem(res, "sense", int(token))
            ELSE IF is_kana(token) THEN SetItem(res, "reb", token)
            ELSE SetItem(res, "keb", token)
    IN  FoldLeft(step, EmptyDict, split(string, KANA_DOT))

\* The tokens tried: headword forms (an ideograph, an ideograph with kana),
\* kana (hiragana, katakana), decimal numbers, and the empty token.
Tokens ==
    { <<35328>>, <<35328, 12358>>,             \* U+8A00, U+8A00 U+3046
      <<12358>>, <<12450, 12358>>,             \* U+3046, U+30A2 U+3046
      <<49>>, <<49, 50>>,                      \* "1", "12"
      <<>> }

join(sep, tokens) ==
    FoldLeft(LAMBDA acc, i :
                 IF i = 1 THEN tokens[i] ELSE acc \o <<sep>> \o tokens[i],
             <<>>, [i \in 1..Len(tokens) |-> i])

XrefStrings ==
    {join(KANA_DOT, ts) : ts \in SeqsUpTo(Tokens, MaxTokens) \ {<<>>}}

XrefInit ==
    /\ xref \in XrefStrings
    /\ result = None
    /\ pc = "start"
    /\ all_entries = <<>>
    /\ records = <<>>
    /\ batch_size = 1
    /\ key_order = "asc"
    /\ batch = 0
    /\ entries = <<>>
    /\ store = EmptyStore
    /\ committed = {}
    /\ run_no = 1
    /\ store_after_first = EmptyStore
    /\ xref_calls = 0
    /\ exit_code = -1
    /\ error = NULL
    /\ driver = "none"

\* result = parse_xref(elem.text)
ParseXref ==
    /\ pc = "start"
    /\ result' = parse_xref(xref)
    /\ pc' = "parsed"
    /\ UNCHANGED <<all_entries, records, batch_size, key_order, batch,
                   entries, store, committed, run_no, store_after_first,
                   xref_calls, exit_code, xref, error, driver>>

XrefNext == ParseXref

XrefSpec == XrefInit /\ [][XrefNext]_vars

(***************************************************************************)
(* What the properties below speak of.                                     *)
(***************************************************************************)
\* The group of the loop that holds the i-th entry of the corpus.
GroupOf(i) == (i - 1) \div batch_size

\* What comes to run() from outside: the store, the file, the user.
Disturbances ==
    {"ServiceUnavailable", "FileNotFoundError", "XMLSyntaxError",
     "KeyboardInterrupt"}

\* The entry element has its sequence number, every headword element its
\* written form and every reading element its kana.
Complete(entry) ==
    /\ entry.ent_seq # NoEntSeq
    /\ \A i \in 1..Len(entry.k_ele) : entry.k_ele[i].keb \notin {NULL, NoText}
    /\ \A i \in 1..Len(entry.r_ele) : entry.r_ele[i].reb \notin {NULL, NoText}

\* A stage of the group of the i-th entry has been committed.
StageCommitted(i, stage) ==
    \E t \in committed : t.batch = GroupOf(i) /\ t.stage = stage

\* Some relationship of a type leads from a node of A to a node of B.
Linked(type, A, B) ==
    \E r \in store[type] : \E a \in A, b \in B : r.from = a.id /\ r.to = b.id

\* The Kanji and Reading nodes of an Entry node.
KanjiNodes(e) ==
    {k \in store.Kanji :
        \E h \in store.HAS_KANJI : h.from = e.id /\ h.to = k.id}

ReadingNodes(e) ==
    {r \in store.Reading :
        \E h \in store.HAS_READING : h.from = e.id /\ h.to = r.id}

(***************************************************************************)
(* C1: loading the same corpus a second time, all groups and all four      *)
(* stages, leaves the nodes and relationships of the store exactly as the  *)
(* first load left them.                                                   *)
(***************************************************************************)
C1_SecondLoadChangesNothing ==
    (run_no > 1 /\ pc = "done") => store = store_after_first

\* A second load of two groups has ended on a store that holds senses,
\* glosses, sentences and their relationships.
C1_Witness ==
    /\ run_no = 2
    /\ pc = "done"
    /\ NumGroups(records, batch_size) = 2
    /\ store.Kanji # {}
    /\ store.IS_READ # {}
    /\ store.Gloss # {}
    /\ store.USED_IN # {}
    /\ store.IS_DEFINED_BY # {}

(***************************************************************************)
(* C2: a group is written atomically: at every moment, of each group of    *)
(* each run either all four stages are committed or none is.               *)
(***************************************************************************)
C2_BatchAtomic ==
    \A r \in 1..MaxRuns, b \in 0..MaxCorpus :
        LET stages == {t.stage : t \in {u \in committed :
                                           u.run = r /\ u.batch = b}}
        IN  stages = {} \/ stages = Range(Stages)

(***************************************************************************)
(* C3: a run that ends successfully has called the cross-reference         *)
(* resolver, once.                                                         *)
(***************************************************************************)
C3_ResolverRanOnce == pc = "done" => xref_calls = run_no

(***************************************************************************)
(* C4: once the readings stage of an entry is committed, a headword and a  *)
(* reading of the entry are related by IS_READ exactly if the reading has  *)
(* no re_restr or one of its re_restr is the headword.                     *)
(***************************************************************************)
C4_IsReadIffRestricted ==
    \A i \in 1..Len(all_entries) :
        StageCommitted(i, "readings") =>
            \A e \in MatchEntry(store, i) :
                \A x \in 1..Len(all_entries[i].k_ele),
                   y \in 1..Len(all_entries[i].r_ele) :
                    LET h == all_entries[i].k_ele[x]
                        r == all_entries[i].r_ele[y]
                    IN  Linked("IS_READ", KanjiOf(store, e, h.keb),
                               ReadingOf(store, e, r.reb))
                        <=> (r.re_restr = <<>> \/ h.keb \in Range(r.re_restr))

\* Where C4 holds of the code: the readings that name their headwords.
C4_RestrictedReading ==
    \E i \in 1..Len(all_entries) :
        /\ StageCommitted(i, "readings")
        /\ \E e \in MatchEntry(store, i) :
               \E y \in 1..Len(all_entries[i].r_ele) :
                   /\ all_entries[i].r_ele[y].re_restr # <<>>
                   /\ Linked("IS_READ", KanjiNodes(e),
                             ReadingOf(store, e, all_entries[i].r_ele[y].reb))

(***************************************************************************)
(* C5: once the senses stage of an entry is committed, a sense with no     *)
(* stagk is related to exactly the headwords of its entry, a sense with no *)
(* stagr to exactly the readings of its entry, and a sense with a stagk or *)
(* stagr list to exactly the forms of its entry the list names, whatever   *)
(* the list of the other kind is.                                          *)
(***************************************************************************)
C5_SenseRestrictionWidening ==
    \A i \in 1..Len(all_entries) :
        StageCommitted(i, "senses") =>
            \A e \in MatchEntry(store, i),
               j \in 1..Len(all_entries[i].sense) :
                \A s \in SenseOf(store, e, j) :
                    LET sense == all_entries[i].sense[j]
                        ks == {k \in store.Kanji :
                                  Linked("IS_DEFINED_BY", {k}, {s})}
                        rs == {r \in store.Reading :
                                  Linked("IS_DEFINED_BY", {r}, {s})}
                    IN  /\ ks = IF sense.stagk = <<>> THEN KanjiNodes(e)
                                ELSE {k \in KanjiNodes(e) :
                                         k.keb \in Range(sense.stagk)}
                        /\ rs = IF sense.stagr = <<>> THEN ReadingNodes(e)
                                ELSE {r \in ReadingNodes(e) :
                                         r.reb \in Range(sense.stagr)}

(***************************************************************************)
(* C6: a cross-reference or antonym spec that more than one entry matches  *)
(* creates no REFERENCES relationship: every relationship that leaves a    *)
(* sense leads to a sense of the one entry that some spec of that sense,   *)
(* of the same kind, matches alone.  The run does not fail.                *)
(***************************************************************************)
\* The entries that hold the forms a spec names.
SpecCandidates(x) ==
    {e \in store.Entry :
        /\ x.keb # NULL => \E k \in KanjiNodes(e) : k.keb = x.keb
        /\ x.reb # NULL => \E r \in ReadingNodes(e) : r.reb = x.reb}

\* The senses of an entry a spec points to: the one of its rank, or all.
SpecTargets(e, x) ==
    {d \in store.Sense :
        \E h \in store.HAS_SENSE :
            /\ h.from = e.id /\ h.to = d.id
            /\ (x.rank = NoRank \/ h.rank = x.rank)}

SpecsOf(sense, antonym) == Range(IF antonym THEN sense.ant ELSE sense.xref)

C6_AmbiguousReferenceDropped ==
    /\ pc # "failed"
    /\ \A i \in 1..Len(records), antonym \in BOOLEAN :
           \A e \in MatchEntry(store, i), j \in 1..Len(records[i].sense) :
               \A src \in SenseOf(store, e, j) :
                   LET alone == {x \in SpecsOf(records[i].sense[j], antonym) :
                                    Cardinality(SpecCandidates(x)) = 1}
                       targets == UNION {SpecTargets(c, x) :
                                         <<c, x>> \in store.Entry \X alone}
                   IN  \A r \in store.REFERENCES :
                           (r.from = src.id /\ r.antonym = antonym) =>
                               \E d \in targets : r.to = d.id

\* The resolver has run over the whole corpus; a sense's reference to a
\* headword that two entries hold has created nothing, while its antonym,
\* which one entry holds, is resolved.
C6_Witness ==
    /\ pc = "done"
    /\ \E i \in 1..Len(records) :
           \E e \in MatchEntry(store, i), j \in 1..Len(records[i].sense) :
               \E src \in SenseOf(store, e, j) :
                   /\ \E x \in SpecsOf(records[i].sense[j], FALSE) :
                          /\ x.reb = NULL /\ x.rank = NoRank
                          /\ Cardinality(SpecCandidates(x)) >= 2
                   /\ ~\E r \in store.REFERENCES :
                           r.from = src.id /\ ~r.antonym
                   /\ \E r \in store.REFERENCES :
                           r.from = src.id /\ r.antonym

(***************************************************************************)
(* C7: once the senses stage of an entry is committed, for every example   *)
(* of every sense of the entry the store holds exactly one Sentence with   *)
(* the example's source type and source id, and the sense has exactly one  *)
(* USED_IN relationship to it, carrying the example's text.                *)
(***************************************************************************)
C7_OneSentencePerSource ==
    \A i \in 1..Len(records) :
        StageCommitted(i, "senses") =>
            \A e \in MatchEntry(store, i), j \in 1..Len(records[i].sense) :
                \A s \in SenseOf(store, e, j) :
                    \A y \in 1..Len(records[i].sense[j].example) :
                        LET ex == records[i].sense[j].example[y]
                            ns == MatchSentence(store, ex.sentence)
                            us == {u \in store.USED_IN :
                                      /\ u.from = s.id
                                      /\ \E n \in ns : u.to = n.id}
                        IN  /\ Cardinality(ns) = 1
                            /\ Cardinality(us) = 1
                            /\ \A u \in us : u.ex_text = ex.ex_text

\* Where C7 holds of the code: two senses of two groups share a Sentence.
C7_SharedSentence ==
    /\ pc = "done"
    /\ batch_size = 1
    /\ \E n \in store.Sentence :
           Cardinality({u \in store.USED_IN : u.to = n.id}) >= 3
    /\ Cardinality({n \in store.Sentence : n.ex_srce = 100041}) = 1

(***************************************************************************)
(* C8: when a run over a corpus of well-formed entries has ended, without  *)
(* a failure of the store or the file and without an interrupt, every      *)
(* entry with N senses has senses of ranks 1..N, and the sense of rank j   *)
(* has the attributes of the entry's j-th sense element.                   *)
(***************************************************************************)
WellFormedExample(example) ==
    /\ example.exsrc_type \in SourceType
    /\ ExSentHas(example.ex_sent, "eng")
    /\ ExSentHas(example.ex_sent, "jpn")

WellFormed(entry) ==
    \A j \in 1..Len(entry.sense) :
        \A y \in 1..Len(entry.sense[j].example) :
            WellFormedExample(entry.sense[j].example[y])

RanksOf(i) ==
    {h.rank : h \in {g \in store.HAS_SENSE :
                        \E e \in MatchEntry(store, i) : g.from = e.id}}

C8_RanksAreDense ==
    (/\ pc \in {"done", "failed"}
     /\ error \notin Disturbances
     /\ \A i \in 1..Len(all_entries) : WellFormed(all_entries[i]))
    => \A i \in 1..Len(all_entries) :
           /\ RanksOf(i) = 1..Len(all_entries[i].sense)
           /\ \A j \in 1..Len(all_entries[i].sense) :
                  \A e \in MatchEntry(store, i) :
                      \A s \in SenseOf(store, e, j) :
                          s.pos = all_entries[i].sense[j].pos

(***************************************************************************)
(* C9: parse_xref of a headword token, a kana token and a number joined    *)
(* by the separator, in any of the six orders, has the keys keb, reb and   *)
(* sense, with the headword token, the kana token and the number's value;  *)
(* parse_xref of a headword token alone has the key keb only.              *)
(***************************************************************************)
IsNumberToken(t) ==
    t # <<>> /\ \A i \in 1..Len(t) : t[i] \in 48..57

IsKanaToken(t) ==
    /\ t # <<>>
    /\ \A i \in 1..Len(t) :
           t[i] \in ((12352..12447) \cup (12448..12543) \cup (12784..12799))
                    \ {12539}

IsHeadwordToken(t) ==
    /\ t # <<>>
    /\ 12539 \notin Range(t)
    /\ ~IsNumberToken(t)
    /\ ~IsKanaToken(t)

RECURSIVE NumberValue(_)
NumberValue(t) ==
    IF t = <<>> THEN 0
    ELSE 10 * NumberValue(SubSeq(t, 1, Len(t) - 1)) + (t[Len(t)] - 48)

Orders == {<<1, 2, 3>>, <<1, 3, 2>>, <<2, 1, 3>>, <<2, 3, 1>>, <<3, 1, 2>>,
           <<3, 2, 1>>}

InOrder(o, h, k, d) ==
    LET ts == <<h, k, d>>
    IN  ts[o[1]] \o <<12539>> \o ts[o[2]] \o <<12539>> \o ts[o[3]]

C9_ParseXrefOrders ==
    pc = "parsed" =>
        /\ \A h \in {t \in Tokens : IsHeadwordToken(t)},
              k \in {t \in Tokens : IsKanaToken(t)},
              d \in {t \in Tokens : IsNumberToken(t)} :
               (\E o \in Orders : xref = InOrder(o, h, k, d)) =>
                   /\ DOMAIN result = {"keb", "reb", "sense"}
                   /\ result.keb = h
                   /\ result.reb = k
                   /\ result.sense = NumberValue(d)
        /\ IsHeadwordToken(xref) =>
               (DOMAIN result = {"keb"} /\ result.keb = xref)

\* A spec of a katakana-and-hiragana reading, a two-digit number and a
\* headword of an ideograph and a kana, in this order, has been parsed.
C9_Witness ==
    /\ pc = "parsed"
    /\ xref = InOrder(<<2, 3, 1>>, <<35328, 12358>>, <<12450, 12358>>,
                      <<49, 50>>)
    /\ result.sense = 12
    /\ result.reb = <<12450, 12358>>
    /\ result.keb = <<35328, 12358>>

(***************************************************************************)
(* C10: a group that holds an example whose exsrc_type is not "tat", or    *)
(* is absent, fails before any of its stages: none of its transactions is  *)
(* ever committed, and when that example is the first thing of the group   *)
(* to be rejected and nothing from outside (store, file, user) ends the    *)
(* run first, the run ends with the validation error of Sentence.          *)
(***************************************************************************)
UnsupportedExample(example) == example.exsrc_type \notin {"tat"}

BadGroup(b) ==
    \E i \in 1..Len(all_entries) :
        /\ GroupOf(i) = b
        /\ \E j \in 1..Len(all_entries[i].sense) :
               \E y \in 1..Len(all_entries[i].sense[j].example) :
                   UnsupportedExample(all_entries[i].sense[j].example[y])

\* The first sense of the group has an unsupported example as its first, and
\* nothing before it in the group is rejected.
FirstRejectedIsExample(b) ==
    \E i \in 1..Len(all_entries) :
        /\ GroupOf(i) = b
        /\ \A h \in 1..(i - 1) :
               GroupOf(h) = b =>
                   Complete(all_entries[h]) /\ all_entries[h].sense = <<>>
        /\ Complete(all_entries[i])
        /\ all_entries[i].sense # <<>>
        /\ all_entries[i].sense[1].example # <<>>
        /\ UnsupportedExample(all_entries[i].sense[1].example[1])

C10_UnsupportedSourceTypeFailsBatch ==
    /\ \A t \in committed : ~BadGroup(t.batch)
    /\ pc \in StagePcs => ~BadGroup(batch)
    /\ (/\ pc = "failed"
        /\ error \notin Disturbances
        /\ FirstRejectedIsExample(batch)) =>
           (error = "ValidationError for Sentence" /\ exit_code = 1)

\* The second group of a run has failed on an example of another source
\* type, after the first group was loaded.
C10_Witness ==
    /\ pc = "failed"
    /\ batch = 1
    /\ BadGroup(1)
    /\ error = "ValidationError for Sentence"
    /\ \E t \in committed : t.batch = 0 /\ t.stage = "senses"
    /\ \A t \in committed : t.batch = 0
    /\ store.Sentence = {}

(***************************************************************************)
(* C11  One node per spelling.  Across the whole store there is at most    *)
(* one Kanji node for a keb and at most one Reading node for a reb, so     *)
(* two entries that hold the same form are linked to the same node.        *)
(***************************************************************************)
C11_OneNodePerSpelling ==
    /\ \A k1, k2 \in store.Kanji : k1.keb = k2.keb => k1 = k2
    /\ \A r1, r2 \in store.Reading : r1.reb = r2.reb => r1 = r2

(***************************************************************************)
(* C12  First write wins.  No step changes a node or a relationship that   *)
(* is in the store: whatever a merge finds already created keeps every one *)
(* of its attributes, whatever values the later record carries.            *)
(***************************************************************************)
Unchanged(type) == \A n \in store[type] : n \in store'[type]

C12_FirstWriteWins ==
    [][\A type \in NodeLabels \cup RelTypes : Unchanged(type)]_vars

\* Where the attributes differ: a Sentence is merged again by an example that
\* words it differently.
C12_SentenceMergedAgain ==
    /\ pc = "done"
    /\ \E i, j \in 1..Len(records) :
           \E a \in 1..Len(records[i].sense), b \in 1..Len(records[j].sense) :
               \E x \in Range(records[i].sense[a].example),
                  y \in Range(records[j].sense[b].example) :
                   /\ i < j
                   /\ x.sentence.ex_srce = y.sentence.ex_srce
                   /\ x.sentence.jpn # y.sentence.jpn
                   /\ \E n \in MatchSentence(store, y.sentence) :
                          \E u \in store.USED_IN :
                              /\ u.to = n.id
                              /\ u.ex_text = y.ex_text

(***************************************************************************)
(* C13  Batch assembly.  The group handed to the load stages as number b   *)
(* (counted from 0) is the parsed entries b*n+1 .. min((b+1)*n, N) of the  *)
(* N entries of the file, in document order: it is never empty, never      *)
(* longer than n, exactly n long unless it is the last, and holds no None. *)
(* The loop ends when the groups have covered the file, and no Entry is    *)
(* merged for anything that is not an entry of the file.                   *)
(***************************************************************************)
C13_BatchAssembly ==
    LET N == Len(all_entries)
        lo == batch * batch_size
        hi == IF lo + batch_size <= N THEN lo + batch_size ELSE N
    IN  /\ pc \in StagePcs =>
            /\ Len(entries) = hi - lo
            /\ 1 <= Len(entries) /\ Len(entries) <= batch_size
            /\ hi < N => Len(entries) = batch_size
            /\ \A i \in 1..Len(entries) :
                   /\ entries[i] # None
                   /\ lo + i <= N
                   /\ Ok(entries[i]) = get_entry(all_entries[lo + i])
        /\ pc = "done" => lo >= N /\ lo - batch_size < N
        /\ \A t \in committed : t.batch * batch_size < N
        /\ \A e \in store.Entry :
               \E i \in 1..N : e.ent_seq = all_entries[i].ent_seq

\* The last group is shorter than n: the file has one entry, n is 2.
C13_PaddedGroup ==
    /\ pc = "add_senses"
    /\ batch_size = 2
    /\ Len(all_entries) = 1
    /\ Len(entries) = 1
    /\ Cardinality(store.Entry) = 1

(***************************************************************************)
(* C14  The connection is released on every exit path.  Once main() has    *)
(* returned its exit code, after a success, an error of any stage or an    *)
(* interrupt, the driver that run() opened is open no more.                *)
(***************************************************************************)
C14_ClosedBeforeExit == exit_code \in {0, 1} => driver # "open"

(***************************************************************************)
(* C15  Exit codes.  main() returns 0 exactly when run() raised nothing,   *)
(* and then every stage of every group of the file is committed; it        *)
(* returns 1 exactly when run() raised, whatever was raised: an error of   *)
(* the connection setup or of reading the file, a validation error, a      *)
(* failure of a store write, an interrupt.  A run that has ended has       *)
(* returned 0 or 1: nothing leaves main() uncaught.                        *)
(***************************************************************************)
C15_ExitCodes ==
    /\ exit_code = 0 <=> (pc = "done" /\ error = NULL)
    /\ exit_code = 0 =>
           \A b \in 0..(NumGroups(all_entries, batch_size) - 1) :
               \A i \in 1..Len(Stages) :
                   [run |-> run_no, batch |-> b, stage |-> Stages[i]]
                       \in committed
    /\ exit_code = 1 <=> error # NULL
    /\ error # NULL <=> pc = "failed"
    /\ pc \in {"done", "failed"} <=> exit_code \in {0, 1}
    /\ exit_code # Escapes

\* Every way run() ends has been seen.
C15_InterruptedRun ==
    /\ pc = "failed"
    /\ error = "KeyboardInterrupt"
    /\ exit_code = 1
    /\ committed # {}

(***************************************************************************)
(* C16  The batch size does not matter.  When a run has ended, the store   *)
(* holds the nodes, relationships and attributes that loading the whole    *)
(* corpus as one single group gives, so runs with any two batch sizes end  *)
(* with the same store.  Stores are compared by what identifies a node in  *)
(* the data (entry number, form, rank, sentence source, language), not by  *)
(* the identifiers the store hands out, which follow the order of          *)
(* creation.                                                               *)
(***************************************************************************)
NodeKey(label, ent_seq, form, rank) ==
    [label |-> label, ent_seq |-> ent_seq, form |-> form, rank |-> rank]

\* The entry number of the node a relationship of the type comes to id from.
OwnerOf(g, type, id) ==
    LET r == CHOOSE r \in g[type] : r.to = id
    IN  (CHOOSE e \in g.Entry : e.id = r.from).ent_seq

SenseKey(g, id) ==
    LET h == CHOOSE h \in g.HAS_SENSE : h.to = id
    IN  NodeKey("Sense", OwnerOf(g, "HAS_SENSE", id), "", h.rank)

KeyOf(g, id) ==
    IF \E n \in g.Entry : n.id = id
    THEN NodeKey("Entry", (CHOOSE n \in g.Entry : n.id = id).ent_seq, "", 0)
    ELSE IF \E n \in g.Kanji : n.id = id
    THEN NodeKey("Kanji", OwnerOf(g, "HAS_KANJI", id),
                 (CHOOSE n \in g.Kanji : n.id = id).keb, 0)
    ELSE IF \E n \in g.Reading : n.id = id
    THEN NodeKey("Reading", OwnerOf(g, "HAS_READING", id),
                 (CHOOSE n \in g.Reading : n.id = id).reb, 0)
    ELSE IF \E n \in g.Sense : n.id = id
    THEN SenseKey(g, id)
    ELSE IF \E n \in g.Gloss : n.id = id
    THEN [SenseKey(g, (CHOOSE r \in g.HAS_GLOSS : r.to = id).from)
             EXCEPT !.label = "Gloss"]
    ELSE IF \E n \in g.Language : n.id = id
    THEN NodeKey("Language", 0, (CHOOSE n \in g.Language : n.id = id).name, 0)
    ELSE LET n == CHOOSE n \in g.Sentence : n.id = id
         IN  NodeKey("Sentence", n.ex_srce, n.exsrc_type, 0)

Contents(g) ==
    [type \in NodeLabels \cup RelTypes |->
        IF type \in NodeLabels
        THEN {[key |-> KeyOf(g, n.id), attributes |-> [n EXCEPT !.id = 0]] :
                 n \in g[type]}
        ELSE {[from |-> KeyOf(g, r.from), to |-> KeyOf(g, r.to),
               attributes |-> [r EXCEPT !.id = 0, !.from = 0, !.to = 0]] :
                 r \in g[type]}]

\* The entries of the run, and the store after loading them as one group.
Given ==
    IF records # <<>> THEN records ELSE Values(Map(get_entry, all_entries))

LoadedAsOneGroup ==
    merge_and_return_senses_for_entries(
        merge_and_return_readings_for_entries(
            merge_and_return_kanji_for_entries(
                merge_and_return_entries(EmptyStore, Given), Given), Given),
        Given, key_order)

TightCandidates(x) ==
    {e \in store.Entry :
        \E k \in KanjiNodes(e), r \in ReadingNodes(e) :
            /\ k.keb = x.keb /\ r.reb = x.reb
            /\ Linked("IS_READ", {k}, {r})}

\* The source senses of the corpus: <<node, its Sense object>>.
Sources ==
    UNION {UNION {{<<src, records[i].sense[j]>> :
                      src \in UNION {SenseOf(store, e, j) :
                                     e \in MatchEntry(store, i)}} :
                  j \in 1..Len(records[i].sense)} :
           i \in 1..Len(records)}

References(src, d, antonym) ==
    {r \in store.REFERENCES :
        r.from = src.id /\ r.to = d.id /\ r.antonym = antonym}

C17_HeadwordAndReading ==
    pc = "done" =>
        \A s \in Sources, antonym \in BOOLEAN :
            LET specs == SpecsOf(s[2], antonym)
                both == {x \in specs : x.keb # NULL /\ x.reb # NULL}
                alone == {x \in both : Cardinality(TightCandidates(x)) = 1}
                targets == UNION {SpecTargets(c, x) :
                                  <<c, x>> \in
                                      {p \in store.Entry \X alone :
                                          p[1] \in TightCandidates(p[2])}}
            IN  /\ \A d \in targets : References(s[1], d, antonym) # {}
                /\ specs = both =>
                       \A d \in store.Sense :
                           References(s[1], d, antonym) # {} => d \in targets

(***************************************************************************)
(* C18  A reference with a reading only.  Its candidates are the entries   *)
(* that hold a Reading node with that reb.  When the resolver has run and  *)
(* exactly one entry is a candidate, the source sense references the       *)
(* senses the spec points to in that entry.                                *)
(***************************************************************************)
C18_ReadingOnly ==
    pc = "done" =>
        \A s \in Sources, antonym \in BOOLEAN :
            \A x \in SpecsOf(s[2], antonym) :
                (/\ x.keb = NULL /\ x.reb # NULL
                 /\ Cardinality(SpecCandidates(x)) = 1) =>
                    \A c \in SpecCandidates(x) :
                        \A d \in SpecTargets(c, x) :
                            References(s[1], d, antonym) # {}

(***************************************************************************)
(* C19  Rank narrowing.  When the resolver has run, a sense whose          *)
(* references of one kind all name a headword only references exactly      *)
(* these senses: for each spec that a single entry matches, the sense of   *)
(* the spec's rank in that entry (none if the entry has no sense of that   *)
(* rank), or every sense of that entry if the spec has no rank.            *)
(***************************************************************************)
HeadwordOnly(specs) == \A x \in specs : x.keb # NULL /\ x.reb = NULL

\* The senses the specs resolve to.
Resolution(specs) ==
    UNION {SpecTargets(c, x) :
           <<c, x>> \in {p \in store.Entry \X specs :
                           SpecCandidates(p[2]) = {p[1]}}}

C19_RankNarrowing ==
    pc = "done" =>
        \A s \in Sources, antonym \in BOOLEAN :
            LET specs == SpecsOf(s[2], antonym)
            IN  HeadwordOnly(specs) =>
                    {d \in store.Sense : References(s[1], d, antonym) # {}}
                        = Resolution(specs)

\* A sense references sense 2 of the entry with headword kA, and has every
\* sense of that entry as an antonym.
C19_RankedAndUnranked ==
    /\ pc = "done"
    /\ \E s \in Sources :
           \E x \in SpecsOf(s[2], FALSE), y \in SpecsOf(s[2], TRUE) :
               /\ x.rank # NoRank /\ y.rank = NoRank /\ x.keb = y.keb
               /\ Cardinality(Resolution({x})) = 1
               /\ Cardinality(Resolution({y})) = 2
               /\ \A d \in Resolution({y}) :
                      /\ References(s[1], d, TRUE) # {}
                      /\ References(s[1], d, FALSE) # {} <=>
                             d \in Resolution({x})

(***************************************************************************)
(* C20  The resolver is idempotent.  Running it again over the same        *)
(* loaded corpus leaves the REFERENCES relationships as they were; there   *)
(* is one relationship for a source, a target and a kind, from the source  *)
(* Sense to the target Sense; and a reference and an antonym between the   *)
(* same two senses are two relationships.                                  *)
(***************************************************************************)
C20_ResolverIdempotent ==
    /\ (run_no > 1 /\ pc = "done") =>
           store.REFERENCES = store_after_first.REFERENCES
    /\ \A r1, r2 \in store.REFERENCES :
           (r1.from = r2.from /\ r1.to = r2.to /\ r1.antonym = r2.antonym)
               => r1 = r2
    /\ \A r \in store.REFERENCES :
           /\ \E s \in Sources :
                  s[1].id = r.from /\ SpecsOf(s[2], r.antonym) # {}
           /\ \E d \in store.Sense : d.id = r.to
    /\ pc = "done" =>
           \A s \in Sources, antonym \in BOOLEAN :
               HeadwordOnly(SpecsOf(s[2], antonym)) =>
                   \A d \in Resolution(SpecsOf(s[2], antonym)) :
                       Cardinality(References(s[1], d, antonym)) = 1

\* The resolver has run twice; a sense is both a reference and an antonym of
\* another.
C20_BothKinds ==
    /\ run_no = 2
    /\ pc = "done"
    /\ xref_calls > NumGroups(records, batch_size)
    /\ \E s \in Sources, d \in store.Sense :
           /\ References(s[1], d, TRUE) # {}
           /\ References(s[1], d, FALSE) # {}

(***************************************************************************)
(* C21  One token per category.  Of a spec whose tokens are all headword   *)
(* forms, kana or numbers, the result has the key of a category exactly    *)
(* when the spec has a token of it, and the value is that of the last      *)
(* such token, whatever tokens of the other categories stand around it.    *)
(***************************************************************************)
\* The tokens of a spec string: the pieces between the separators.
RECURSIVE TokensOf(_)
TokensOf(string) ==
    IF 12539 \notin Range(string) THEN <<string>>
    ELSE LET i == CHOOSE i \in 1..Len(string) :
                      /\ string[i] = 12539
                      /\ \A j \in 1..(i - 1) : string[j] # 12539
         IN  <<SubSeq(string, 1, i - 1)>>
                 \o TokensOf(SubSeq(string, i + 1, Len(string)))

\* The place of the last token of a category, 0 if there is none.
LastPlace(ts, Is(_)) ==
    LET places == {i \in 1..Len(ts) : Is(ts[i])}
    IN  IF places = {} THEN 0
        ELSE CHOOSE i \in places : \A j \in places : j <= i

C21_LastTokenOfCategoryKept ==
    (pc = "parsed" /\ \A t \in Range(TokensOf(xref)) : t # <<>>) =>
        LET ts == TokensOf(xref)
            h == LastPlace(ts, IsHeadwordToken)
            k == LastPlace(ts, IsKanaToken)
            d == LastPlace(ts, IsNumberToken)
        IN  /\ "keb" \in DOMAIN result <=> h > 0
            /\ "reb" \in DOMAIN result <=> k > 0
            /\ "sense" \in DOMAIN result <=> d > 0
            /\ h > 0 => result.keb = ts[h]
            /\ k > 0 => result.reb = ts[k]
            /\ d > 0 => result.sense = NumberValue(ts[d])

\* Two readings around a headword: the second reading is kept.
C21_TwoReadings ==
    /\ pc = "parsed"
    /\ xref = <<12358, 12539, 35328, 12539, 12450, 12358>>
    /\ DOMAIN result = {"keb", "reb"}
    /\ result.reb = <<12450, 12358>>
    /\ result.keb = <<35328>>

(***************************************************************************)
(* C28  No empty token is recorded.  Whatever the spec string, also with   *)
(* a separator at its start or end, two separators in a row, or nothing    *)
(* at all, a keb or reb of the result is a string that is not empty.       *)
(***************************************************************************)
C28_NoEmptyToken ==
    pc = "parsed" =>
        \A key \in DOMAIN result \cap {"keb", "reb"} : result[key] # <<>>

(***************************************************************************)
(* C22  Fail fast.  A group that holds an invalid record (one that lacks   *)
(* its sequence number, a written form or a kana text, or has an example   *)
(* of an unsupported source type or with no text or English sentence),     *)
(* at whatever place in the group, never reaches a load stage: none of     *)
(* its transactions is ever committed.                                     *)
(***************************************************************************)
InvalidRecord(entry) ==
    \/ ~Complete(entry)
    \/ \E j \in 1..Len(entry.sense) :
           \E y \in 1..Len(entry.sense[j].example) :
               LET example == entry.sense[j].example[y]
               IN  \/ UnsupportedExample(example)
                   \/ example.ex_text = NULL
                   \/ ~ExSentHas(example.ex_sent, "eng")

InvalidGroup(b) ==
    \E i \in 1..Len(all_entries) :
        GroupOf(i) = b /\ InvalidRecord(all_entries[i])

C22_FailFast ==
    /\ \A t \in committed : ~InvalidGroup(t.batch)
    /\ pc \in StagePcs => ~InvalidGroup(batch)
    /\ (pc = "failed" /\ InvalidGroup(batch)) =>
           \A t \in committed : t.run = run_no => t.batch < batch

\* A group of two whose second record lacks a kana text has failed with
\* nothing written.
C22_InvalidSecond ==
    /\ pc = "failed"
    /\ batch = 0
    /\ Len(all_entries) = 2
    /\ batch_size = 2
    /\ ~InvalidRecord(all_entries[1])
    /\ ~Complete(all_entries[2])
    /\ error = "ValidationError for Reading"
    /\ store = EmptyStore

(***************************************************************************)
(* C23  The stages run in order.  In every run the transactions of a       *)
(* group are committed in the order entries, kanji, readings, senses: a    *)
(* stage is committed, or about to be called, only when the stage before   *)
(* it is committed, and the first stage of a group only when the senses    *)
(* stage of the group before it is committed.                              *)
(***************************************************************************)
Done(r, b, stage) == [run |-> r, batch |-> b, stage |-> stage] \in committed

\* What must be committed before the stage of group b is called.
Before(r, b, stage) ==
    IF stage = "entries" THEN b = 0 \/ Done(r, b - 1, "senses")
    ELSE \E i \in 1..(Len(Stages) - 1) :
             Stages[i + 1] = stage /\ Done(r, b, Stages[i])

StageAt(p) ==
    CASE p = "add_entries" -> "entries"
      [] p = "add_kanji" -> "kanji"
      [] p = "add_readings" -> "readings"
      [] p = "add_senses" -> "senses"

C23_StagesInOrder ==
    /\ \A t \in committed : Before(t.run, t.batch, t.stage)
    /\ pc \in StagePcs =>
           /\ Before(run_no, batch, StageAt(pc))
           /\ ~Done(run_no, batch, StageAt(pc))
           /\ \A t \in committed :
                  t.run = run_no => t.batch <= batch

\* The second group is under way: its entries are merged, the first group
\* is complete.
C23_SecondGroup ==
    /\ pc = "add_kanji"
    /\ batch = 1
    /\ \A i \in 1..Len(Stages) : Done(run_no, 0, Stages[i])
    /\ Done(run_no, 1, "entries")
    /\ ~Done(run_no, 1, "kanji")

(***************************************************************************)
(* C24  One relationship per loan source.  When the load has ended, a      *)
(* sense with k loan-source annotations has k SOURCED_FROM relationships,  *)
(* and for each annotation one to its language that carries the            *)
(* annotation's phrase, partial and wasei.                                 *)
(***************************************************************************)
SourcedFrom(src) == {r \in store.SOURCED_FROM : r.from = src.id}

C24_OneRelationshipPerLoanSource ==
    pc = "done" =>
        \A s \in Sources :
            /\ Cardinality(SourcedFrom(s[1])) = Len(s[2].lsource)
            /\ \A a \in Range(s[2].lsource) :
                   \E r \in SourcedFrom(s[1]), l \in store.Language :
                       /\ r.to = l.id /\ l.name = a.lang.name
                       /\ r.phrase = a.phrase
                       /\ r.partial = a.partial
                       /\ r.wasei = a.wasei

(***************************************************************************)
(* C25  Gloss grouping.  The Gloss of a sense lists, per bucket, the texts *)
(* of the definition elements of that type in document order (no type:     *)
(* defn; expl, fig, lit, tm); an element of another type is in no bucket.  *)
(* The sense has a Gloss exactly when a bucket is not empty, and exactly   *)
(* then the loaded sense has a Gloss node, with these lists.               *)
(***************************************************************************)
Buckets == {"defn", "expl", "fig", "lit", "tm"}

BucketOf(elem) ==
    IF elem.g_type = NULL THEN "defn"
    ELSE IF elem.g_type \in Buckets \ {"defn"} THEN elem.g_type
    ELSE "none"

\* The texts of the elements of a bucket, in document order.
RECURSIVE Bucket(_, _)
Bucket(elems, b) ==
    IF elems = <<>> THEN <<>>
    ELSE (IF BucketOf(Head(elems)) = b THEN <<Head(elems).text>> ELSE <<>>)
             \o Bucket(Tail(elems), b)

\* The sense elements of the corpus and their Sense objects.
SenseElems ==
    UNION {{<<all_entries[i].sense[j], records[i].sense[j], i, j>> :
               j \in 1..Len(all_entries[i].sense)} :
           i \in 1..Len(records)}

C25_GlossGrouping ==
    \A p \in SenseElems :
        LET elems == p[1].gloss
            gloss == p[2].gloss
            some == \E b \in Buckets : Bucket(elems, b) # <<>>
        IN  /\ gloss # None <=> some
            /\ some => \A b \in Buckets : gloss[b] = Bucket(elems, b)
            /\ StageCommitted(p[3], "senses") =>
                   \A e \in MatchEntry(store, p[3]) :
                       \A s \in SenseOf(store, e, p[4]) :
                           /\ some => Cardinality(GlossOf(store, s)) = 1
                           /\ ~some => GlossOf(store, s) = {}
                           /\ \A n \in GlossOf(store, s), b \in Buckets :
                                  n[b] = Bucket(elems, b)

\* Loaded: a sense whose only definition is of an unknown type, and a sense
\* with definitions of two buckets and one of an unknown type.
C25_UnknownTypes ==
    /\ pc = "done"
    /\ \E p \in SenseElems :
           /\ p[1].gloss # <<>>
           /\ p[2].gloss = None
           /\ \E e \in MatchEntry(store, p[3]) :
                  \E s \in SenseOf(store, e, p[4]) : GlossOf(store, s) = {}
    /\ \E p \in SenseElems :
           /\ \E x \in Range(p[1].gloss) : BucketOf(x) = "none"
           /\ \E e \in MatchEntry(store, p[3]) :
                  \E s \in SenseOf(store, e, p[4]) :
                      \E n \in GlossOf(store, s) :
                          /\ n.lit = <<"literal", "literal 2">>
                          /\ n.defn = <<"meaning">>

(***************************************************************************)
(* C26  Missing fields.  A record that lacks its sequence number, the      *)
(* written form of a headword element or the kana of a reading element     *)
(* never yields an Entry: its group reaches no load stage and commits      *)
(* nothing.  And a run fails with the error of such a missing field        *)
(* (AttributeError of find(...).text, ValidationError of Kanji or of       *)
(* Reading) only if a record of the group being parsed lacks one of them.  *)
(***************************************************************************)
MissingRequiredField ==
    {"AttributeError", "ValidationError for Kanji",
     "ValidationError for Reading"}

CompleteGroup(b) ==
    \A i \in 1..Len(all_entries) : GroupOf(i) = b => Complete(all_entries[i])

ElementOf(k) == all_entries[batch * batch_size + k]

C27_SenseRecordsCarrySpecs ==
    /\ pc \in StagePcs =>
           \A k \in 1..Len(entries) :
               /\ Len(entries[k].sense) = Len(ElementOf(k).sense)
               /\ \A j \in 1..Len(entries[k].sense) :
                      {"xref", "ant"} \subseteq DOMAIN entries[k].sense[j]
    /\ pc = "failed" => error # "ValidationError for Sense"

(***************************************************************************)
(* C29  A failure stops the run.  The step at which run() raises writes    *)
(* nothing and takes nothing back, and after it no step of the run         *)
(* follows: no stage of the failed group or of a later one, no second      *)
(* attempt.  The store and the committed transactions stay as they were    *)
(* when the exception was raised.                                          *)
(***************************************************************************)
C29_FailureStopsRun ==
    [][/\ (error = NULL /\ error' # NULL) =>
              /\ pc' = "failed"
              /\ store' = store
              /\ committed' = committed
       /\ error # NULL =>
              /\ pc = "failed"
              /\ pc' = "failed"
              /\ error' = error
              /\ batch' = batch
              /\ entries' = entries
              /\ store' = store
              /\ committed' = committed]_vars

\* The readings stage of the second group has failed, the driver has been
\* closed since: the first group's four transactions and the second group's
\* first two are committed and both entries are in the store.
C29_FailedInSecondGroup ==
    /\ pc = "failed"
    /\ error = "ServiceUnavailable"
    /\ driver = "closed"
    /\ run_no = 1
    /\ batch = 1
    /\ batch_size = 1
    /\ {t.stage : t \in {u \in committed : u.batch = 0}}
           = {"entries", "kanji", "readings", "senses"}
    /\ {t.stage : t \in {u \in committed : u.batch = 1}}
           = {"entries", "kanji"}
    /\ \A i \in 1..2 : MatchEntry(store, i) # {}
    /\ store.Kanji # {}

(***************************************************************************)
(* C30  Restrictions stay inside the entry.  Every IS_READ relationship    *)
(* leads from a Kanji node to a Reading node of one Entry, and every       *)
(* IS_DEFINED_BY relationship from a Kanji or Reading node to a Sense      *)
(* node of one Entry.  A re_restr, stagk or stagr item that names a form   *)
(* the entry does not have gives no relationship to the entry's reading    *)
(* or sense, whatever other entries hold, and the load raises no error.    *)
(***************************************************************************)
IdsOf(nodes) == {n.id : n \in nodes}

SenseNodes(e) ==
    {s \in store.Sense :
        \E h \in store.HAS_SENSE : h.from = e.id /\ h.to = s.id}

\* The forms of the nodes a relationship of the type leads from, to a node.
FormsTo(type, node) ==
    {k.keb : k \in {n \in store.Kanji :
                       \E r \in store[type] :
                           r.from = n.id /\ r.to = node.id}}
    \cup {x.reb : x \in {n \in store.Reading :
                            \E r \in store[type] :
                                r.from = n.id /\ r.to = node.id}}

\* A restriction item of the i-th record that names none of its forms.
Foreign(i, item) ==
    /\ item \notin Range(AllKeb(all_entries[i]))
    /\ item \notin Range(AllReb(all_entries[i]))

C30_RestrictionsStayInEntry ==
    /\ pc # "failed"
    /\ error = NULL
    /\ \A rel \in store.IS_READ :
           \E e \in store.Entry :
               /\ rel.from \in IdsOf(KanjiNodes(e))
               /\ rel.to \in IdsOf(ReadingNodes(e))
    /\ \A rel \in store.IS_DEFINED_BY :
           \E e \in store.Entry :
               /\ rel.from \in IdsOf(KanjiNodes(e) \cup ReadingNodes(e))
               /\ rel.to \in IdsOf(SenseNodes(e))
    /\ \A i \in 1..Len(records) :
           \A e \in MatchEntry(store, i) :
               /\ \A r \in ReadingNodes(e) :
                      \A item \in FormsTo("IS_READ", r) : ~Foreign(i, item)
               /\ \A s \in SenseNodes(e) :
                      \A item \in FormsTo("IS_DEFINED_BY", s) :
                          ~Foreign(i, item)

\* The load is over.  An entry's reading is restricted to a headword that
\* only the other entry has, and its sense to a headword and to a reading
\* that only the other entry has; the nodes of those forms are in the store,
\* and the entry's reading and sense are linked to its own forms.
C30_ForeignForms ==
    /\ pc = "xref"
    /\ run_no = 1
    /\ \E i, j \in 1..Len(records) :
           /\ i # j
           /\ \E x \in 1..Len(records[i].r_ele) :
                  \E item \in Range(records[i].r_ele[x].re_restr) :
                      /\ Foreign(i, item)
                      /\ \E e \in MatchEntry(store, j) :
                             KanjiOf(store, e, item) # {}
           /\ \E y \in 1..Len(records[i].sense) :
                  /\ \E item \in Range(records[i].sense[y].stagk) :
                         /\ Foreign(i, item)
                         /\ \E e \in MatchEntry(store, j) :
                                KanjiOf(store, e, item) # {}
                  /\ \E item \in Range(records[i].sense[y].stagr) :
                         /\ Foreign(i, item)
                         /\ \E e \in MatchEntry(store, j) :
                                ReadingOf(store, e, item) # {}
           /\ \E e \in MatchEntry(store, i) :
                  /\ \E r \in ReadingNodes(e) : FormsTo("IS_READ", r) # {}
                  /\ \E s \in SenseNodes(e) :
                         Cardinality(FormsTo("IS_DEFINED_BY", s)) = 2

====
